---- MODULE Spec2Model ----
(***************************************************************************)
(* Seat reservation backend: the Redis seat engine (Lua scripts), the      *)
(* booking orchestrator, the payment orchestrator with its webhook         *)
(* reconciler, the idempotency store and the expiry reaper.                *)
(*                                                                         *)
(* Identifiers are small integers: seat ids 1..NumSeats are the seats of   *)
(* the one showtime, NumSeats+1 is a seat id the showtime does not have;   *)
(* booking ids, payment ids, users and idempotency keys are 1..n; 0 is     *)
(* "absent" (nil / null / no document).  The clock counts ticks; the hold  *)
(* duration (600 s in the source) is HoldTicks ticks.                      *)
(***************************************************************************)
EXTENDS Integers, Sequences, FiniteSets, TLC

\* ------------------------------------------------------------- bounds
NumSeats == 2
MaxArgs == 2
NumBookings == 2
NumPayments == 2
NumKeys == 2
NumUsers == 2
NumProcs == 2
MaxTime == 2
HoldTicks == 1
MaxFaults == 1
MaxVersion == 2
MaxDrift == 2
NumFields == 2
NumVals == 2
NumResources == 1
LockTicks == 2
MaxLockValues == 3
MaxRetry == 1

Seats == 1..NumSeats
SeatIds == 1..(NumSeats + 1)
BookingIds == 1..NumBookings
PaymentIds == 1..NumPayments
Keys == 1..NumKeys
Users == 1..NumUsers
Procs == 1..NumProcs

\* every seat list a request may carry: 1..MaxArgs seat ids, repeats allowed
SeatLists == UNION {[1..n -> SeatIds] : n \in 1..MaxArgs}

Range(f) == {f[i] : i \in DOMAIN f}

\* ------------------------------------------------------------- seat records
\* initializeShowtime writes {status: available, seat_type} for every seat
AvailableSeat == [status |-> "available", booking_id |-> 0, held_until |-> 0]

HeldSeat(booking_id, hold_expire) ==
  [status |-> "held", booking_id |-> booking_id, held_until |-> hold_expire]

BookedSeat(rec) ==
  [status |-> "booked", booking_id |-> rec.booking_id, held_until |-> 0]

CountStatus(map, st) == Cardinality({s \in DOMAIN map : map[s].status = st})

\* ------------------------------------------------------------- engine scripts
\* Each script is an operator from the store's state (the seat hash `map`, the
\* counter `avail`), the store's clock `t` and ARGV to the state it leaves and
\* the JSON it returns.

\* a faulty phase 1 that takes a live hold for a free seat
ReserveReasonIgnoringHolds(map, t, seat) ==
  IF seat \notin DOMAIN map THEN "NOT_FOUND"
  ELSE IF map[seat].status = "booked" THEN "BOOKED"
  ELSE "OK"

\* batch-seat-reservation.lua, phase 1: the reason a seat is not reservable
\* ("OK" when it is)
ReserveReason(map, t, seat) ==
  IF seat \notin DOMAIN map THEN "NOT_FOUND"
  ELSE IF map[seat].status = "booked" THEN "BOOKED"
  ELSE IF map[seat].status = "held" /\ map[seat].held_until > t THEN "HELD"
  ELSE "OK"

\* batch-seat-reservation.lua, line 118: was_available of one checked entry
WasAvailable(map, seat) == map[seat].status = "available"

\* a faulty reservation without phase 1: it holds the seats it can and reports
\* the others
reserveSeatBySeat(map, avail, t, booking_id, hold_expire, args) ==
  LET unavailable == {i \in DOMAIN args : ReserveReason(map, t, args[i]) # "OK"}
      taken == {args[i] : i \in DOMAIN args \ unavailable}
  IN  [seats |-> [s \in DOMAIN map |->
                    IF s \in taken THEN HeldSeat(booking_id, hold_expire) ELSE map[s]],
       available |-> avail - Cardinality({s \in taken : WasAvailable(map, s)}),
       success |-> (unavailable = {}),
       message |-> IF unavailable = {} THEN "SUCCESS" ELSE "SEATS_UNAVAILABLE",
       unavailable |-> {args[i] : i \in unavailable}]

\* batch-seat-reservation.lua: one entry of seats_to_check per ARGV entry, one
\* HSET and (when was_available) one unit of available_decrement per entry
batchReserve(map, avail, t, booking_id, hold_expire, args) ==
  LET unavailable == {i \in DOMAIN args : ReserveReason(map, t, args[i]) # "OK"}
      decrement == Cardinality({i \in DOMAIN args : WasAvailable(map, args[i])})
  IN  IF hold_expire <= 0 \/ Len(args) <= 0
        THEN [seats |-> map, available |-> avail, success |-> FALSE,
              message |-> "INVALID_INPUT", unavailable |-> {}]
      ELSE IF unavailable # {}
        THEN [seats |-> map, available |-> avail, success |-> FALSE,
              message |-> "SEATS_UNAVAILABLE",
              unavailable |-> {args[i] : i \in unavailable}]
      ELSE [seats |-> [s \in DOMAIN map |->
                         IF s \in Range(args) THEN HeldSeat(booking_id, hold_expire)
                         ELSE map[s]],
            available |-> avail - decrement,
            success |-> TRUE, message |-> "SUCCESS", unavailable |-> {}]

\* release-seats.lua, lines 36-62: the loop over ARGV[2..n], each iteration
\* reading the hash the earlier iterations wrote
RECURSIVE ReleaseLoop(_, _, _, _)
ReleaseLoop(map, booking_id, args, i) ==
  IF i > Len(args) THEN [seats |-> map, released |-> 0, failed |-> {}]
  ELSE LET seat == args[i]
           hit == seat \in DOMAIN map /\ map[seat].booking_id = booking_id
           map1 == IF hit THEN [map EXCEPT ![seat] = AvailableSeat] ELSE map
           rest == ReleaseLoop(map1, booking_id, args, i + 1)
       IN  [seats |-> rest.seats,
            released |-> rest.released + (IF hit THEN 1 ELSE 0),
            failed |-> rest.failed \cup (IF hit THEN {} ELSE {seat})]

\* a faulty release that frees the listed seats whoever holds them
releaseAnyBooking(map, avail, t, booking_id, args) ==
  LET taken == {s \in DOMAIN map \cap Range(args) : map[s].status # "available"}
  IN  [seats |-> [s \in DOMAIN map |-> IF s \in taken THEN AvailableSeat ELSE map[s]],
       available |-> avail + Cardinality(taken), success |-> TRUE,
       released |-> Cardinality(taken), failed |-> {}]

\* release-seats.lua
releaseSeatsScript(map, avail, t, booking_id, args) ==
  IF Len(args) <= 0
    THEN [seats |-> map, available |-> avail, success |-> FALSE,
          released |-> 0, failed |-> {}]
  ELSE LET r == ReleaseLoop(map, booking_id, args, 1)
       IN  [seats |-> r.seats, available |-> avail + r.released,
            success |-> (r.failed = {}), released |-> r.released,
            failed |-> r.failed]

\* confirm-seats script, lines 122-139: whether one seat is confirmed
Confirmable(map, t, booking_id, seat) ==
  /\ seat \in DOMAIN map
  /\ map[seat].status = "held"
  /\ map[seat].booking_id = booking_id
  /\ ~(map[seat].held_until < t)

\* confirm-seats script, lines 110-142
RECURSIVE ConfirmLoop(_, _, _, _, _)
ConfirmLoop(map, t, booking_id, args, i) ==
  IF i > Len(args) THEN [seats |-> map, confirmed |-> 0, failed |-> {}]
  ELSE LET seat == args[i]
           hit == Confirmable(map, t, booking_id, seat)
           map1 == IF hit THEN [map EXCEPT ![seat] = BookedSeat(map[seat])] ELSE map
           rest == ConfirmLoop(map1, t, booking_id, args, i + 1)
       IN  [seats |-> rest.seats,
            confirmed |-> rest.confirmed + (IF hit THEN 1 ELSE 0),
            failed |-> rest.failed \cup (IF hit THEN {} ELSE {seat})]

\* a confirm-seats that undoes its confirmations when any seat fails
confirmSeatsOrRollBack(map, avail, t, booking_id, args) ==
  LET r == ConfirmLoop(map, t, booking_id, args, 1)
  IN  [seats |-> IF r.failed = {} THEN r.seats ELSE map, available |-> avail,
       success |-> (r.failed = {}), confirmed |-> r.confirmed,
       failed |-> r.failed]

\* confirm-seats script: the counter is not a key of this script
confirmSeatsScript(map, avail, t, booking_id, args) ==
  IF Len(args) <= 0
    THEN [seats |-> map, available |-> avail, success |-> FALSE,
          confirmed |-> 0, failed |-> {}]
  ELSE LET r == ConfirmLoop(map, t, booking_id, args, 1)
       IN  [seats |-> r.seats, available |-> avail,
            success |-> (r.failed = {}), confirmed |-> r.confirmed,
            failed |-> r.failed]

\* the expired-hold test shared by cleanup-expired-holds.lua (line 40) and the
\* get-seats-status script (lines 127, 165)
HoldExpired(rec, t) == rec.status = "held" /\ rec.held_until < t

\* a faulty cleanup that counts every held seat it looks at, expired or not
cleanupCountingAllHolds(map, avail, t) ==
  LET expired == {s \in DOMAIN map : HoldExpired(map[s], t)}
      seen == {s \in DOMAIN map : map[s].status = "held"}
  IN  [seats |-> [s \in DOMAIN map |-> IF s \in expired THEN AvailableSeat ELSE map[s]],
       available |-> avail + Cardinality(seen),
       released |-> Cardinality(expired)]

\* cleanup-expired-holds.lua
cleanupExpiredHoldsScript(map, avail, t) ==
  LET expired == {s \in DOMAIN map : HoldExpired(map[s], t)}
  IN  [seats |-> [s \in DOMAIN map |-> IF s \in expired THEN AvailableSeat ELSE map[s]],
       available |-> avail + Cardinality(expired),
       released |-> Cardinality(expired)]

\* get-seats-status script, specific seats (lines 115-150): one INCR per HSET
RECURSIVE StatusLoop(_, _, _, _)
StatusLoop(map, t, args, i) ==
  IF i > Len(args) THEN [seats |-> map, cleaned |-> 0]
  ELSE LET seat == args[i]
           hit == seat \in DOMAIN map /\ HoldExpired(map[seat], t)
           map1 == IF hit THEN [map EXCEPT ![seat] = AvailableSeat] ELSE map
           rest == StatusLoop(map1, t, args, i + 1)
       IN  [seats |-> rest.seats, cleaned |-> rest.cleaned + (IF hit THEN 1 ELSE 0)]

\* get-seats-status script: no ARGV means all seats (lines 151-186)
getSeatsStatusScript(map, avail, t, args) ==
  IF Len(args) > 0
    THEN LET r == StatusLoop(map, t, args, 1)
         IN  [seats |-> r.seats, available |-> avail + r.cleaned,
              expired_cleaned |-> r.cleaned]
  ELSE LET c == cleanupExpiredHoldsScript(map, avail, t)
       IN  [seats |-> c.seats, available |-> c.available,
            expired_cleaned |-> c.released]

\* extendHold's inline script, lines 556-569
RECURSIVE ExtendLoop(_, _, _, _, _, _)
ExtendLoop(map, t, booking_id, additional, args, i) ==
  IF i > Len(args) THEN [seats |-> map, extended |-> 0]
  ELSE LET seat == args[i]
           hit == /\ seat \in DOMAIN map
                  /\ map[seat].booking_id = booking_id
                  /\ map[seat].status = "held"
                  /\ map[seat].held_until > t
           map1 == IF hit
                     THEN [map EXCEPT ![seat].held_until = map[seat].held_until + additional]
                   ELSE map
           rest == ExtendLoop(map1, t, booking_id, additional, args, i + 1)
       IN  [seats |-> rest.seats, extended |-> rest.extended + (IF hit THEN 1 ELSE 0)]

extendHoldScript(map, avail, t, booking_id, additional, args) ==
  LET r == ExtendLoop(map, t, booking_id, additional, args, 1)
  IN  [seats |-> r.seats, available |-> avail, extended |-> r.extended]

\* ------------------------------------------------------------- request bodies
\* A JSON value: a scalar, an array or an object.  The items of an object are
\* its properties in the order the client wrote them; property names are the
\* integers 1..NumFields, in the order String sort gives the names.
JNull == [t |-> "null", v |-> 0, items |-> <<>>]

JNum(n) == [t |-> "num", v |-> n, items |-> <<>>]

JStr(str) == [t |-> "str", v |-> str, items |-> <<>>]

JArr(vals) ==
  [t |-> "arr", v |-> 0, items |-> [i \in DOMAIN vals |-> [k |-> 0, val |-> vals[i]]]]

JObj(names, vals) ==
  [t |-> "obj", v |-> 0,
   items |-> [i \in DOMAIN names |-> [k |-> names[i], val |-> vals[i]]]]

\* a faulty canonical form that leaves the properties where they are
keepKeyOrder(obj) == obj

\* IdempotencyService.sortObjectKeys: scalars as they are, arrays element by
\* element, objects rebuilt with their keys in sorted order
RECURSIVE sortObjectKeys(_)
sortObjectKeys(obj) ==
  IF obj.t \notin {"arr", "obj"} THEN obj
  ELSE IF obj.t = "arr"
    THEN [obj EXCEPT !.items =
            [i \in DOMAIN obj.items |->
               [k |-> 0, val |-> sortObjectKeys(obj.items[i].val)]]]
  ELSE LET keys == SortSeq([i \in DOMAIN obj.items |-> obj.items[i].k],
                           LAMBDA a, b : a < b)
           at(key) == CHOOSE i \in DOMAIN obj.items : obj.items[i].k = key
       IN  [obj EXCEPT !.items =
              [i \in DOMAIN keys |->
                 [k |-> keys[i],
                  val |-> sortObjectKeys(obj.items[at(keys[i])].val)]]]

\* ------------------------------------------------------------- state
VARIABLES
  now,        \* the clock (the store's TIME and the handlers' Date.now)
  seatMap,    \* showtime:{id}:seats, seat id -> seat record
  available,  \* showtime:{id}:available
  holdCache,  \* idempotency:hold:{key} -> cached HoldSeatsResponse
  bookings,   \* the bookings collection, booking id -> document
  minted,     \* booking ids minted so far (new Types.ObjectId())
  payments,   \* the payments collection, payment id -> document
  idem,       \* the idempotency_keys collection, <<key, user>> -> document
  proc,       \* the request handlers and the cron job in flight
  faults,     \* store / database errors that may still happen in this run
  hist,       \* history: what the handlers did, for the properties
  locks       \* the lock keys of the store and the lock service's callers

vars == <<now, seatMap, available, holdCache, bookings, minted, payments, idem,
          proc, faults, hist, locks>>

\* a lock key that is not set
NoLock == [value |-> 0, expires |-> 0]

\* a caller of the lock service: its acquireLock call in flight (pc, attempt)
\* and the Lock object it was given (has, resource, value), with until, the
\* time the store was told to keep the key to
NoCaller == [pc |-> "idle", resource |-> 0, value |-> 0, ttl |-> 0, attempt |-> 0,
             has |-> FALSE, until |-> 0]

\* no lock key is set, no caller has a lock; last is the latest script call,
\* turn telling it from the call before
NoLocks == [store |-> [r \in 1..NumResources |-> NoLock], issued |-> 0,
            caller |-> [c \in Procs |-> NoCaller],
            last |-> [op |-> "", resource |-> 0, value |-> 0, result |-> 0,
                      turn |-> 0]]

NoResp == [status |-> 0, code |-> "", bid |-> 0, bstatus |-> "", pid |-> 0, url |-> 0]

Resp(status, code) == [NoResp EXCEPT !.status = status, !.code = code]

NoBooking ==
  [status |-> "none", user_id |-> 0, seats |-> <<>>, hold_expires_at |-> 0,
   idempotency_key |-> 0, cancellation_reason |-> ""]

NoPayment ==
  [status |-> "none", booking_id |-> 0, user_id |-> 0, idempotency_key |-> 0,
   gateway_transaction_id |-> 0, version |-> 0]

NoIdem ==
  [status |-> "none", request_hash |-> JNull, response_status |-> 0,
   response_body |-> NoResp]

IdleProc ==
  [op |-> "idle", pc |-> "idle", key |-> 0, user |-> 0, seats |-> <<>>,
   bid |-> 0, pid |-> 0, wstatus |-> "", todo |-> {}, late |-> FALSE,
   reuse |-> FALSE, dstatus |-> "", dreason |-> "", dec |-> 0,
   retry |-> FALSE, raced |-> FALSE, runs |-> 0, paid |-> FALSE, body |-> JNull, resp |-> NoResp]

NoHist ==
  [completions |-> [q \in PaymentIds |-> 0],
   confirmCalls |-> [q \in PaymentIds |-> 0],
   firstResp |-> [kk \in Keys \X Users |-> NoResp],
   holdResp |-> [k \in Keys |-> NoResp],
   firstFail |-> [kk \in Keys \X Users |-> NoResp],
   sent |-> [kk \in Keys \X Users |-> JNull]]

\* the state after initializeShowtime: every seat available, the counter set to
\* the number of seats, no document in any collection
Init ==
  /\ now = 0
  /\ locks = NoLocks
  /\ seatMap = [s \in Seats |-> AvailableSeat]
  /\ available = NumSeats
  /\ holdCache = [k \in Keys |-> NoResp]
  /\ bookings = [b \in BookingIds |-> NoBooking]
  /\ minted = 0
  /\ payments = [q \in PaymentIds |-> NoPayment]
  /\ idem = [kk \in Keys \X Users |-> NoIdem]
  /\ proc = [p \in Procs |-> IdleProc]
  /\ faults = 0
  /\ hist = NoHist

\* a handler finishes: its response is what the client receives
Finish(pr, resp) ==
  [IdleProc EXCEPT !.op = pr.op, !.pc = "done", !.key = pr.key,
                   !.user = pr.user, !.seats = pr.seats, !.bid = pr.bid,
                   !.pid = pr.pid, !.wstatus = pr.wstatus, !.late = pr.late,
                   !.reuse = pr.reuse, !.retry = pr.retry,
                   !.raced = pr.raced, !.runs = pr.runs,
                   !.paid = pr.paid,
                   !.body = pr.body, !.resp = resp]

\* a response is delivered before anything else happens: delivery touches no
\* shared state, so the order of the other steps is not restricted by it
NoneDone == \A p \in Procs : proc[p].pc # "done"

At(p, op, pc) == NoneDone /\ proc[p].op = op /\ proc[p].pc = pc

\* handler slot p is free for a new request
Idle(p) == NoneDone /\ proc[p].op = "idle"

\* the response has been delivered; the handler slot is free again
Return(p) ==
  /\ proc[p].pc = "done"
  /\ proc' = [proc EXCEPT ![p] = IdleProc]
  /\ UNCHANGED <<locks, now, seatMap, available, holdCache, bookings, minted, payments,
                 idem, faults, hist>>

Tick ==
  /\ NoneDone
  /\ now < MaxTime
  /\ now' = now + 1
  /\ UNCHANGED <<locks, seatMap, available, holdCache, bookings, minted, payments, idem,
                 proc, faults, hist>>

\* a store or database call may fail while the run's budget lasts
CanFail == faults > 0

\* ------------------------------------------------------------- engine service
\* SeatReservationService.reserveSeats: holdExpire from the caller's clock
reserveSeats(map, avail, t, seats, bookingId) ==
  batchReserve(map, avail, t, bookingId, t + HoldTicks, seats)

\* SeatReservationService.reserveSeats, catch: the error becomes a result
ReserveInternalError(map, avail) ==
  [seats |-> map, available |-> avail, success |-> FALSE,
   message |-> "INTERNAL_ERROR", unavailable |-> {}]

\* SeatReservationService.releaseSeats, catch
ReleaseInternalError(map, avail, seats) ==
  [seats |-> map, available |-> avail, success |-> FALSE, released |-> 0,
   failed |-> Range(seats)]

\* SeatReservationService.confirmSeats, catch
ConfirmInternalError(map, avail, seats) ==
  [seats |-> map, available |-> avail, success |-> FALSE, confirmed |-> 0,
   failed |-> Range(seats)]

\* ------------------------------------------------------------- hold-seats
\* BookingService.buildHoldSeatsResponse
buildHoldSeatsResponse(b) ==
  [NoResp EXCEPT !.status = 201, !.code = "HOLD", !.bid = b,
                 !.bstatus = bookings[b].status]

\* hold requests that have not minted their booking id yet
Unminted == {p \in Procs : proc[p].op = "hold" /\ proc[p].bid = 0 /\ proc[p].pc # "done"}

BookingsWithKey(k) ==
  {b \in BookingIds : bookings[b].status # "none" /\ bookings[b].idempotency_key = k}

\* an earlier hold-seats request of user u, answered by now, has made a booking
\* with key k and seats other than s
KeyReused(k, u, s) ==
  /\ \E b \in BookingsWithKey(k) : bookings[b].user_id = u /\ bookings[b].seats # s
  /\ \A p \in Procs : ~(proc[p].op = "hold" /\ proc[p].key = k)

\* an earlier hold-seats request of user u with key k and the same seats s has
\* been answered with success
HoldAnswered(k, u, s) ==
  /\ hist.holdResp[k] # NoResp
  /\ \E b \in BookingsWithKey(k) : bookings[b].user_id = u /\ bookings[b].seats = s

\* a hold-seats request arrives; holdSeats step 1:
\* redisService.get(`idempotency:hold:${idempotencyKey}`)
HoldCacheGet(p, k, u, s) ==
  /\ Idle(p)
  /\ holdCache[k] # NoResp \/ minted + Cardinality(Unminted) < NumBookings
  /\ LET pr == [IdleProc EXCEPT !.op = "hold", !.pc = "hs_find", !.key = k,
                                !.user = u, !.seats = s,
                                !.reuse = KeyReused(k, u, s),
                                !.late = HoldAnswered(k, u, s)]
     IN  proc' = [proc EXCEPT ![p] =
                    IF holdCache[k] # NoResp THEN Finish(pr, holdCache[k]) ELSE pr]
  /\ UNCHANGED <<locks, now, seatMap, available, holdCache, bookings, minted, payments,
                 idem, faults, hist>>

\* holdSeats: bookingModel.findOne({idempotency_key}), then the showtime lookup,
\* validateShowtime and prepareSeatInfos (the showtime document does not change)
HoldFind(p) ==
  /\ At(p, "hold", "hs_find")
  /\ proc' = [proc EXCEPT ![p] =
                IF BookingsWithKey(proc[p].key) # {}
                  THEN Finish(proc[p], buildHoldSeatsResponse(
                                   CHOOSE b \in BookingsWithKey(proc[p].key) : TRUE))
                ELSE IF \E i \in DOMAIN proc[p].seats : proc[p].seats[i] \notin Seats
                  THEN Finish(proc[p], Resp(400, "INVALID_SEAT"))
                ELSE [proc[p] EXCEPT !.pc = "hs_reserve"]]
  /\ UNCHANGED <<locks, now, seatMap, available, holdCache, bookings, minted, payments,
                 idem, faults, hist>>

\* holdSeats step 4: mint the booking id and call reserveSeats; a failed result,
\* whatever its message, is answered 409 SEATS_NOT_AVAILABLE (dec remembers by
\* how much the script lowered the counter)
HoldReserve(p) ==
  /\ At(p, "hold", "hs_reserve")
  /\ \E failed \in {x \in BOOLEAN : x => CanFail} :
       LET bid == minted + 1
           r == IF failed THEN ReserveInternalError(seatMap, available)
                ELSE reserveSeats(seatMap, available, now, proc[p].seats, bid)
       IN  /\ minted' = bid
           /\ seatMap' = r.seats
           /\ available' = r.available
           /\ faults' = faults - (IF failed THEN 1 ELSE 0)
           /\ proc' = [proc EXCEPT ![p] =
                         IF r.success
                           THEN [proc[p] EXCEPT !.pc = "hs_create", !.bid = bid,
                                                !.dec = available - r.available]
                         ELSE Finish(proc[p], [Resp(409, "SEATS_NOT_AVAILABLE") EXCEPT !.bid = bid])]
  /\ UNCHANGED <<locks, now, holdCache, bookings, payments, idem, hist>>

\* holdSeats step 5: bookingModel.create; the unique index on idempotency_key
\* or the database may reject it, and the catch block takes over
HoldCreate(p) ==
  /\ At(p, "hold", "hs_create")
  /\ \E failed \in {x \in BOOLEAN : x => CanFail} :
       LET rejected == failed \/ BookingsWithKey(proc[p].key) # {}
       IN  /\ faults' = faults - (IF failed THEN 1 ELSE 0)
           /\ bookings' =
                IF rejected THEN bookings
                ELSE [bookings EXCEPT ![proc[p].bid] =
                        [status |-> "pending", user_id |-> proc[p].user,
                         seats |-> proc[p].seats,
                         hold_expires_at |-> now + HoldTicks,
                         idempotency_key |-> proc[p].key,
                         cancellation_reason |-> ""]]
           /\ proc' = [proc EXCEPT ![p].pc =
                         IF rejected THEN "hs_rollback" ELSE "hs_cacheset"]
  /\ UNCHANGED <<locks, now, seatMap, available, holdCache, minted, payments, idem, hist>>

\* holdSeats: redisService.set of the response (inside the same try block)
HoldCacheSet(p) ==
  /\ At(p, "hold", "hs_cacheset")
  /\ \E failed \in {x \in BOOLEAN : x => CanFail} :
       /\ faults' = faults - (IF failed THEN 1 ELSE 0)
       /\ holdCache' =
            IF failed THEN holdCache
            ELSE [holdCache EXCEPT ![proc[p].key] = buildHoldSeatsResponse(proc[p].bid)]
       /\ hist' = IF ~failed /\ hist.holdResp[proc[p].key] = NoResp
                    THEN [hist EXCEPT !.holdResp[proc[p].key] =
                                         buildHoldSeatsResponse(proc[p].bid)]
                  ELSE hist
       /\ proc' = [proc EXCEPT ![p] =
                     IF failed THEN [proc[p] EXCEPT !.pc = "hs_rollback"]
                     ELSE Finish(proc[p], buildHoldSeatsResponse(proc[p].bid))]
  /\ UNCHANGED <<locks, now, seatMap, available, bookings, minted, payments, idem>>

\* holdSeats, catch: releaseSeats(showtime, bookingId, dto.seats), then 409
HoldRollback(p) ==
  /\ At(p, "hold", "hs_rollback")
  /\ \E failed \in {x \in BOOLEAN : x => CanFail} :
       LET r == IF failed THEN ReleaseInternalError(seatMap, available, proc[p].seats)
                ELSE releaseSeatsScript(seatMap, available, now, proc[p].bid, proc[p].seats)
       IN  /\ faults' = faults - (IF failed THEN 1 ELSE 0)
           /\ seatMap' = r.seats
           /\ available' = r.available
  /\ proc' = [proc EXCEPT ![p] = Finish(proc[p], Resp(409, "BOOKING_FAILED"))]
  /\ UNCHANGED <<locks, now, holdCache, bookings, minted, payments, idem, hist>>

\* ------------------------------------------------------------- cancel-booking
\* a faulty cancel-booking without the status check
CancelFindAnyStatus(p, b, u) ==
  /\ Idle(p)
  /\ LET bk == bookings[b]
         pr == [IdleProc EXCEPT !.op = "cancel", !.pc = "cb_release", !.bid = b,
                                !.user = u]
     IN  proc' = [proc EXCEPT ![p] =
                    IF bk.status = "none" THEN Finish(pr, Resp(404, "BOOKING_NOT_FOUND"))
                    ELSE IF bk.user_id # u
                      THEN Finish(pr, Resp(403, "BOOKING_NOT_OWNED"))
                    ELSE pr]
  /\ UNCHANGED <<locks, now, seatMap, available, holdCache, bookings, minted, payments,
                 idem, faults, hist>>

\* a cancel request arrives; cancelBooking: findById, the ownership check and
\* the status check
CancelFind(p, b, u) ==
  /\ Idle(p)
  /\ LET bk == bookings[b]
         pr == [IdleProc EXCEPT !.op = "cancel", !.pc = "cb_release", !.bid = b,
                                !.user = u]
     IN  proc' = [proc EXCEPT ![p] =
                    IF bk.status = "none" THEN Finish(pr, Resp(404, "BOOKING_NOT_FOUND"))
                    ELSE IF bk.user_id # u
                      THEN Finish(pr, Resp(403, "BOOKING_NOT_OWNED"))
                    ELSE IF bk.status # "pending"
                      THEN Finish(pr, Resp(400, "BOOKING_CANNOT_BE_CANCELLED"))
                    ELSE pr]
  /\ UNCHANGED <<locks, now, seatMap, available, holdCache, bookings, minted, payments,
                 idem, faults, hist>>

\* cancelBooking: releaseSeats, its result is not looked at
CancelRelease(p) ==
  /\ At(p, "cancel", "cb_release")
  /\ \E failed \in {x \in BOOLEAN : x => CanFail} :
       LET seats == bookings[proc[p].bid].seats
           r == IF failed THEN ReleaseInternalError(seatMap, available, seats)
                ELSE releaseSeatsScript(seatMap, available, now, proc[p].bid, seats)
       IN  /\ faults' = faults - (IF failed THEN 1 ELSE 0)
           /\ seatMap' = r.seats
           /\ available' = r.available
  /\ proc' = [proc EXCEPT ![p].pc = "cb_save"]
  /\ UNCHANGED <<locks, now, holdCache, bookings, minted, payments, idem, hist>>

\* cancelBooking: booking.save() writes the fields the handler changed
CancelSave(p) ==
  /\ At(p, "cancel", "cb_save")
  /\ bookings' = [bookings EXCEPT ![proc[p].bid].status = "cancelled",
                                  ![proc[p].bid].cancellation_reason = "Cancelled by user"]
  /\ proc' = [proc EXCEPT ![p] =
                Finish(proc[p], [Resp(200, "CANCELLED") EXCEPT !.bid = proc[p].bid,
                                                         !.bstatus = "cancelled"])]
  /\ UNCHANGED <<locks, now, seatMap, available, holdCache, minted, payments, idem,
                 faults, hist>>

\* ------------------------------------------------------------- expiry reaper
\* releaseExpiredHolds: the query for pending bookings past their deadline
ExpiredPending(t) ==
  {b \in BookingIds : bookings[b].status = "pending" /\ bookings[b].hold_expires_at < t}

Min(S) == CHOOSE x \in S : \A y \in S : x <= y

\* the cron job fires: bookingModel.find({status: pending, hold_expires_at < now})
ReaperFind(p) ==
  /\ Idle(p)
  /\ ExpiredPending(now) # {}
  /\ proc' = [proc EXCEPT ![p] = [IdleProc EXCEPT !.op = "reaper", !.pc = "rp_release",
                                                 !.todo = ExpiredPending(now)]]
  /\ UNCHANGED <<locks, now, seatMap, available, holdCache, bookings, minted, payments,
                 idem, faults, hist>>

\* releaseExpiredHolds, loop body: releaseSeats for the next booking found
ReaperRelease(p) ==
  /\ At(p, "reaper", "rp_release")
  /\ \E failed \in {x \in BOOLEAN : x => CanFail} :
       LET b == Min(proc[p].todo)
           seats == bookings[b].seats
           r == IF failed THEN ReleaseInternalError(seatMap, available, seats)
                ELSE releaseSeatsScript(seatMap, available, now, b, seats)
       IN  /\ faults' = faults - (IF failed THEN 1 ELSE 0)
           /\ seatMap' = r.seats
           /\ available' = r.available
  /\ proc' = [proc EXCEPT ![p].pc = "rp_save"]
  /\ UNCHANGED <<locks, now, holdCache, bookings, minted, payments, idem, hist>>

\* releaseExpiredHolds, loop body: booking.save() with status expired
ReaperSave(p) ==
  /\ At(p, "reaper", "rp_save")
  /\ LET b == Min(proc[p].todo)
         rest == proc[p].todo \ {b}
     IN  /\ bookings' = [bookings EXCEPT ![b].status = "expired",
                                         ![b].cancellation_reason = "Hold expired"]
         /\ proc' = [proc EXCEPT ![p] =
                       IF rest = {} THEN IdleProc
                       ELSE [proc[p] EXCEPT !.pc = "rp_release", !.todo = rest]]
  /\ UNCHANGED <<locks, now, seatMap, available, holdCache, minted, payments, idem,
                 faults, hist>>

\* ------------------------------------------------------------- idempotency store
\* IdempotencyService.hashRequestBody: SHA-256 of JSON.stringify of the body
\* with its keys sorted; the digest is taken as injective, so the hash is the
\* sorted body itself
hashRequestBody(body) == sortObjectKeys(body)

\* CreatePaymentDto: booking_id (property 1) and payment_method (property 2)
PaymentDto(b) == JObj(<<1, 2>>, <<JNum(b), JStr("momo")>>)

\* IdempotencyService.checkIdempotencyKey, lines 134-232: what the check does
\* with the record it found
checkIdempotencyKey(rec, requestHash) ==
  IF rec.status = "none" THEN "create"
  ELSE IF rec.request_hash # requestHash THEN "KEY_REUSED_DIFFERENT_BODY"
  ELSE IF rec.status = "completed" THEN "cached"
  ELSE IF rec.status = "processing" THEN "REQUEST_IN_FLIGHT"
  ELSE "cached_failed"

\* a faulty completion that marks the record completed and stores no body
completeWithoutBody(rec, status, body) ==
  IF rec.status = "processing"
    THEN [rec EXCEPT !.status = "completed", !.response_status = status]
  ELSE rec

\* IdempotencyService.completeIdempotencyKey: updateOne gated on processing
completeIdempotencyKey(rec, status, body) ==
  IF rec.status = "processing"
    THEN [rec EXCEPT !.status = "completed", !.response_status = status,
                     !.response_body = body]
  ELSE rec

\* a faulty failure whose update is not gated on the status
failWhateverStatus(rec, message, statusCode) ==
  IF rec.status # "none"
    THEN [rec EXCEPT !.status = "failed", !.response_status = statusCode,
                     !.response_body = Resp(0, message)]
  ELSE rec

\* IdempotencyService.failIdempotencyKey: updateOne gated on processing
failIdempotencyKey(rec, message, statusCode) ==
  IF rec.status = "processing"
    THEN [rec EXCEPT !.status = "failed", !.response_status = statusCode,
                     !.response_body = Resp(0, message)]
  ELSE rec

\* createPayment, catch: the status code stored for the thrown error
DerivedStatus(thrown) ==
  IF thrown \in {400, 404, 409} THEN thrown ELSE 500

\* ------------------------------------------------------------- create-payment
PaymentsMade == {q \in PaymentIds : payments[q].status # "none"}

\* create-payment requests that may still create a payment
Uncreated == {p \in Procs : proc[p].op = "pay" /\ proc[p].pid = 0 /\ proc[p].pc # "done"}

\* a create-payment request arrives: its inputs, whether an earlier request
\* with the same key, user and body has already succeeded (late) or failed
\* (retry), and whether the booking has a completed payment (paid)
PayRequest(k, u, b) ==
  [IdleProc EXCEPT !.op = "pay", !.pc = "cp_check", !.key = k, !.user = u, !.bid = b,
                   !.paid = \E q \in PaymentIds : /\ payments[q].booking_id = b
                                                   /\ payments[q].status = "completed",
                   !.late = /\ hist.firstResp[<<k, u>>] # NoResp
                            /\ idem[<<k, u>>].request_hash =
                                 hashRequestBody(PaymentDto(b)),
                   !.retry = /\ hist.firstFail[<<k, u>>] # NoResp
                             /\ idem[<<k, u>>].request_hash =
                                  hashRequestBody(PaymentDto(b))]

\* what createPayment does after checkIdempotencyKey
AfterCheck(pr) ==
  LET rec == idem[<<pr.key, pr.user>>]
      c == checkIdempotencyKey(rec, hashRequestBody(PaymentDto(pr.bid)))
  IN  CASE c = "create" -> [pr EXCEPT !.pc = "cp_idem_create"]
        [] c = "KEY_REUSED_DIFFERENT_BODY" -> Finish(pr, Resp(400, c))
        [] c = "REQUEST_IN_FLIGHT" -> Finish(pr, Resp(409, c))
        [] OTHER -> Finish(pr, [rec.response_body EXCEPT !.status = 201])

\* createPayment steps 1-3: hash the body, find the idempotency record, return
\* the cached body (the controller answers 201 whatever was cached)
PayCheck(p, k, u, b) ==
  /\ Idle(p)
  /\ LET pr == AfterCheck(PayRequest(k, u, b))
     IN  /\ pr.pc = "done" \/ Cardinality(PaymentsMade) + Cardinality(Uncreated) < NumPayments
         /\ proc' = [proc EXCEPT ![p] = pr]
  /\ UNCHANGED <<locks, now, seatMap, available, holdCache, bookings, minted, payments,
                 idem, faults, hist>>

\* checkIdempotencyKey called again after a duplicate-key error (line 160)
PayRecheck(p) ==
  /\ At(p, "pay", "cp_check")
  /\ proc' = [proc EXCEPT ![p] = AfterCheck(proc[p])]
  /\ UNCHANGED <<locks, now, seatMap, available, holdCache, bookings, minted, payments,
                 idem, faults, hist>>

\* a faulty create on a collection without the unique index on (key, user_id)
PayIdemCreateUnindexed(p) ==
  /\ At(p, "pay", "cp_idem_create")
  /\ idem' = [idem EXCEPT ![<<proc[p].key, proc[p].user>>] =
                 [NoIdem EXCEPT !.status = "processing",
                                !.request_hash =
                                   hashRequestBody(PaymentDto(proc[p].bid))]]
  /\ proc' = [proc EXCEPT ![p].pc = "cp_validate"]
  /\ UNCHANGED <<locks, now, seatMap, available, holdCache, bookings, minted, payments,
                 faults, hist>>

\* checkIdempotencyKey, case 1: create the record; on a duplicate key (the
\* request has lost a race) check again
PayIdemCreate(p) ==
  /\ At(p, "pay", "cp_idem_create")
  /\ LET kk == <<proc[p].key, proc[p].user>>
     IN  IF idem[kk].status # "none"
           THEN /\ proc' = [proc EXCEPT ![p].pc = "cp_check", ![p].raced = TRUE]
                /\ idem' = idem
         ELSE /\ idem' = [idem EXCEPT ![kk] =
                            [NoIdem EXCEPT !.status = "processing",
                                           !.request_hash =
                                              hashRequestBody(PaymentDto(proc[p].bid))]]
              /\ proc' = [proc EXCEPT ![p].pc = "cp_validate"]
  /\ UNCHANGED <<locks, now, seatMap, available, holdCache, bookings, minted, payments,
                 faults, hist>>

\* PaymentService.validateBooking over BookingService.getBooking: the error it
\* throws (0 when the booking can be paid)
validateBooking(bk, userId, t) ==
  IF bk.status = "none" THEN 404
  ELSE IF bk.user_id # userId THEN 403
  ELSE IF bk.status # "pending" THEN 400
  ELSE IF bk.hold_expires_at < t THEN 400
  ELSE 0

ValidateMessage(bk, userId) ==
  IF bk.status = "none" THEN "Booking not found"
  ELSE IF bk.user_id # userId THEN "BOOKING_NOT_OWNED"
  ELSE IF bk.status # "pending" THEN "Booking cannot be paid"
  ELSE "Booking hold has expired"

PayValidate(p) ==
  /\ At(p, "pay", "cp_validate")
  /\ LET bk == bookings[proc[p].bid]
         e == validateBooking(bk, proc[p].user, now)
     IN  proc' = [proc EXCEPT ![p] =
                    IF e # 0
                      THEN [proc[p] EXCEPT !.pc = "cp_fail",
                                           !.resp = Resp(e, ValidateMessage(bk, proc[p].user))]
                    ELSE [proc[p] EXCEPT !.pc = "cp_existing"]]
  /\ UNCHANGED <<locks, now, seatMap, available, holdCache, bookings, minted, payments,
                 idem, faults, hist>>

\* createPayment step 5: the payments of the booking that are pending,
\* processing or completed
ExistingPayments(b) ==
  {q \in PaymentIds : /\ payments[q].booking_id = b
                      /\ payments[q].status \in {"pending", "processing", "completed"}}

PaymentBody(q, message) ==
  [NoResp EXCEPT !.code = message, !.pid = q, !.url = payments[q].gateway_transaction_id]

PayExisting(p) ==
  /\ At(p, "pay", "cp_existing")
  /\ LET found == ExistingPayments(proc[p].bid)
         q == Min(found)
     IN  proc' = [proc EXCEPT ![p] =
                    IF found = {} THEN [proc[p] EXCEPT !.pc = "cp_create"]
                    ELSE IF payments[q].status = "completed"
                      THEN [proc[p] EXCEPT !.pc = "cp_fail",
                                           !.resp = Resp(409, "Booking already paid")]
                    ELSE [proc[p] EXCEPT !.pc = "cp_complete", !.pid = q,
                            !.resp = [PaymentBody(q, "Payment already exists, please complete payment")
                                        EXCEPT !.status = 200]]]
  /\ UNCHANGED <<locks, now, seatMap, available, holdCache, bookings, minted, payments,
                 idem, faults, hist>>

PaymentsWithKey(k) ==
  {q \in PaymentIds : payments[q].status # "none" /\ payments[q].idempotency_key = k}

\* createPayment step 6: paymentModel.create; idempotency_key is unique
PayCreate(p) ==
  /\ At(p, "pay", "cp_create")
  /\ IF PaymentsWithKey(proc[p].key) # {}
       THEN /\ proc' = [proc EXCEPT ![p].pc = "cp_readkey"]
            /\ payments' = payments
     ELSE LET q == Cardinality(PaymentsMade) + 1
          IN  /\ payments' = [payments EXCEPT ![q] =
                                [NoPayment EXCEPT !.status = "pending",
                                                  !.booking_id = proc[p].bid,
                                                  !.user_id = proc[p].user,
                                                  !.idempotency_key = proc[p].key]]
              /\ proc' = [proc EXCEPT ![p].pc = "cp_gateway", ![p].pid = q]
  /\ UNCHANGED <<locks, now, seatMap, available, holdCache, bookings, minted, idem,
                 faults, hist>>

\* createPayment, duplicate key: findOne({idempotency_key}) and answer with it
PayReadByKey(p) ==
  /\ At(p, "pay", "cp_readkey")
  /\ LET q == Min(PaymentsWithKey(proc[p].key))
     IN  proc' = [proc EXCEPT ![p] =
                    [proc[p] EXCEPT !.pc = "cp_complete", !.pid = q,
                                    !.resp = [PaymentBody(q, "Payment already exists")
                                                EXCEPT !.status = 200]]]
  /\ UNCHANGED <<locks, now, seatMap, available, holdCache, bookings, minted, payments,
                 idem, faults, hist>>

\* createPayment step 7: callPaymentGateway, then updateOne({_id}) sets the
\* transaction id, the payment url and status processing (no guard on status)
PayGateway(p) ==
  /\ At(p, "pay", "cp_gateway")
  /\ LET q == proc[p].pid
     IN  /\ payments' = [payments EXCEPT ![q].gateway_transaction_id = q,
                                         ![q].status = "processing"]
         /\ proc' = [proc EXCEPT ![p] =
                       [proc[p] EXCEPT !.pc = "cp_complete",
                          !.resp = [NoResp EXCEPT !.status = 201, !.pid = q, !.url = q,
                                      !.code = "Please complete payment within 15 minutes"]]]
  /\ UNCHANGED <<locks, now, seatMap, available, holdCache, bookings, minted, idem,
                 faults, hist>>

\* createPayment: completeIdempotencyKey with the response, then return it
PayComplete(p) ==
  /\ At(p, "pay", "cp_complete")
  /\ LET kk == <<proc[p].key, proc[p].user>>
         body == [proc[p].resp EXCEPT !.status = 0]
     IN  /\ idem' = [idem EXCEPT ![kk] =
                       completeIdempotencyKey(idem[kk], proc[p].resp.status, body)]
         /\ hist' = IF hist.firstResp[kk] = NoResp
                      THEN [hist EXCEPT !.firstResp[kk] = [body EXCEPT !.status = 201]]
                    ELSE hist
         /\ proc' = [proc EXCEPT ![p] = Finish(proc[p], [body EXCEPT !.status = 201])]
  /\ UNCHANGED <<locks, now, seatMap, available, holdCache, bookings, minted, payments,
                 faults>>

\* createPayment, catch: failIdempotencyKey, then rethrow
PayFail(p) ==
  /\ At(p, "pay", "cp_fail")
  /\ LET kk == <<proc[p].key, proc[p].user>>
     IN  idem' = [idem EXCEPT ![kk] =
                    failIdempotencyKey(idem[kk], proc[p].resp.code,
                                       DerivedStatus(proc[p].resp.status))]
  /\ hist' = IF hist.firstFail[<<proc[p].key, proc[p].user>>] = NoResp
               THEN [hist EXCEPT !.firstFail[<<proc[p].key, proc[p].user>>] = proc[p].resp]
             ELSE hist
  /\ proc' = [proc EXCEPT ![p] = Finish(proc[p], proc[p].resp)]
  /\ UNCHANGED <<locks, now, seatMap, available, holdCache, bookings, minted, payments,
                 faults>>

\* ------------------------------------------------------------- payment webhook
WebhookStatuses == {"success", "failed", "pending"}

\* webhooks in flight that may still modify payment t
WebhooksFor(t) ==
  {p \in Procs : /\ proc[p].op = "webhook" /\ proc[p].pid = t
                  /\ proc[p].pc \in {"wh_fail", "wh_success"}}

\* handleWebhook: findOne({gateway_transaction_id}), the early return for a
\* completed payment, and the branch on payload.status (late: a failed webhook
\* for a payment an earlier failed webhook has been handled for)
WebhookFind(p, t, st) ==
  /\ Idle(p)
  /\ LET pr == [IdleProc EXCEPT !.op = "webhook", !.pid = t, !.wstatus = st,
                                !.bid = payments[t].booking_id,
                                !.late = /\ st = "failed"
                                         /\ payments[t].status = "failed"
                                         /\ \A o \in Procs :
                                              ~(proc[o].op = "webhook" /\ proc[o].pid = t)]
         nx == IF payments[t].gateway_transaction_id # t
                 THEN Finish([pr EXCEPT !.bid = 0], Resp(404, "Payment not found"))
               ELSE IF payments[t].status = "completed"
                 THEN Finish(pr, Resp(200, "Payment already processed"))
               ELSE IF st = "failed" THEN [pr EXCEPT !.pc = "wh_fail"]
               ELSE IF st = "success" THEN [pr EXCEPT !.pc = "wh_success"]
               ELSE Finish(pr, Resp(200, "Webhook processed"))
     IN  /\ nx.pc = "done" \/ payments[t].version + Cardinality(WebhooksFor(t)) < MaxVersion
         /\ proc' = [proc EXCEPT ![p] = nx]
  /\ UNCHANGED <<locks, now, seatMap, available, holdCache, bookings, minted, payments,
                 idem, faults, hist>>

\* a faulty filter that matches whatever the status
AnyStatus(pay) == pay.status = pay.status

\* the filter both conditional updates of handleWebhook use
NotCompleted(pay) == pay.status # "completed"

\* handleWebhook, failed: updateOne({_id, status != completed}) sets failed
WebhookFail(p) ==
  /\ At(p, "webhook", "wh_fail")
  /\ LET q == proc[p].pid
     IN  IF NotCompleted(payments[q])
           THEN /\ payments' = [payments EXCEPT ![q].status = "failed",
                                                ![q].version = payments[q].version + 1]
                /\ proc' = [proc EXCEPT ![p].pc = "rs_find"]
         ELSE /\ payments' = payments
              /\ proc' = [proc EXCEPT ![p] = Finish(proc[p], Resp(200, "Payment marked as failed"))]
  /\ UNCHANGED <<locks, now, seatMap, available, holdCache, bookings, minted, idem,
                 faults, hist>>

\* handleWebhook, success: updateOne({gateway_transaction_id, status !=
\* completed}) sets completed; when it modified, confirmSeatsAfterPayment is
\* called
WebhookSuccess(p) ==
  /\ At(p, "webhook", "wh_success")
  /\ LET q == proc[p].pid
     IN  IF NotCompleted(payments[q])
           THEN /\ payments' = [payments EXCEPT ![q].status = "completed",
                                                ![q].version = payments[q].version + 1]
                /\ hist' = [hist EXCEPT !.completions[q] = hist.completions[q] + 1,
                                        !.confirmCalls[q] = hist.confirmCalls[q] + 1]
                /\ proc' = [proc EXCEPT ![p].pc = "cs_find"]
         ELSE /\ payments' = payments
              /\ hist' = hist
              /\ proc' = [proc EXCEPT ![p] = Finish(proc[p], Resp(200, "Payment already processed"))]
  /\ UNCHANGED <<locks, now, seatMap, available, holdCache, bookings, minted, idem, faults>>

\* confirmSeatsAfterPayment: findById loads the booking document
ConfirmFind(p) ==
  /\ At(p, "webhook", "cs_find")
  /\ proc' = [proc EXCEPT ![p].pc = "cs_confirm",
                          ![p].dstatus = bookings[proc[p].bid].status,
                          ![p].dreason = bookings[proc[p].bid].cancellation_reason]
  /\ UNCHANGED <<locks, now, seatMap, available, holdCache, bookings, minted, payments,
                 idem, faults, hist>>

\* confirmSeatsAfterPayment: confirmSeats; a failed confirm is only logged
ConfirmSeats(p) ==
  /\ At(p, "webhook", "cs_confirm")
  /\ \E failed \in {x \in BOOLEAN : x => CanFail} :
       LET seats == bookings[proc[p].bid].seats
           r == IF failed THEN ConfirmInternalError(seatMap, available, seats)
                ELSE confirmSeatsScript(seatMap, available, now, proc[p].bid, seats)
       IN  /\ faults' = faults - (IF failed THEN 1 ELSE 0)
           /\ seatMap' = r.seats
           /\ available' = r.available
           /\ proc' = [proc EXCEPT ![p] =
                         IF r.success THEN [proc[p] EXCEPT !.pc = "cs_save"]
                         ELSE Finish(proc[p], Resp(200, "Payment completed successfully"))]
  /\ UNCHANGED <<locks, now, holdCache, bookings, minted, payments, idem, hist>>

\* confirmSeatsAfterPayment: booking.save() writes status when the assignment
\* changed the loaded document
ConfirmSave(p) ==
  /\ At(p, "webhook", "cs_save")
  /\ bookings' = IF proc[p].dstatus # "confirmed"
                   THEN [bookings EXCEPT ![proc[p].bid].status = "confirmed"]
                 ELSE bookings
  /\ proc' = [proc EXCEPT ![p] = Finish(proc[p], Resp(200, "Payment completed successfully"))]
  /\ UNCHANGED <<locks, now, seatMap, available, holdCache, minted, payments, idem,
                 faults, hist>>

\* releaseSeatsAfterPaymentFailure: findById loads the booking document
ReleaseFind(p) ==
  /\ At(p, "webhook", "rs_find")
  /\ proc' = [proc EXCEPT ![p].pc = "rs_release",
                          ![p].dstatus = bookings[proc[p].bid].status,
                          ![p].dreason = bookings[proc[p].bid].cancellation_reason]
  /\ UNCHANGED <<locks, now, seatMap, available, holdCache, bookings, minted, payments,
                 idem, faults, hist>>

\* releaseSeatsAfterPaymentFailure: releaseSeats; a failed release is only logged
ReleaseSeats(p) ==
  /\ At(p, "webhook", "rs_release")
  /\ \E failed \in {x \in BOOLEAN : x => CanFail} :
       LET seats == bookings[proc[p].bid].seats
           r == IF failed THEN ReleaseInternalError(seatMap, available, seats)
                ELSE releaseSeatsScript(seatMap, available, now, proc[p].bid, seats)
       IN  /\ faults' = faults - (IF failed THEN 1 ELSE 0)
           /\ seatMap' = r.seats
           /\ available' = r.available
           /\ proc' = [proc EXCEPT ![p] =
                         IF r.success THEN [proc[p] EXCEPT !.pc = "rs_save"]
                         ELSE Finish(proc[p], Resp(200, "Payment marked as failed"))]
  /\ UNCHANGED <<locks, now, holdCache, bookings, minted, payments, idem, hist>>

\* releaseSeatsAfterPaymentFailure: booking.save() writes the fields whose
\* assignment changed the loaded document
ReleaseSave(p) ==
  /\ At(p, "webhook", "rs_save")
  /\ LET b == proc[p].bid
         b1 == IF proc[p].dstatus # "cancelled"
                 THEN [bookings[b] EXCEPT !.status = "cancelled"] ELSE bookings[b]
         b2 == IF proc[p].dreason # "Payment failed"
                 THEN [b1 EXCEPT !.cancellation_reason = "Payment failed"] ELSE b1
     IN  bookings' = [bookings EXCEPT ![b] = b2]
  /\ proc' = [proc EXCEPT ![p] = Finish(proc[p], Resp(200, "Payment marked as failed"))]
  /\ UNCHANGED <<locks, now, seatMap, available, holdCache, minted, payments, idem,
                 faults, hist>>

\* ------------------------------------------------------------- the system
\* hold keys no booking, cached response or request in flight carries
UnusedHoldKeys ==
  {k \in Keys : /\ BookingsWithKey(k) = {}
                /\ holdCache[k] = NoResp
                /\ \A p \in Procs : ~(proc[p].op = "hold" /\ proc[p].key = k)}

\* payment keys no payment, idempotency record or request in flight carries
UnusedPayKeys ==
  {k \in Keys : /\ PaymentsWithKey(k) = {}
                /\ \A u \in Users : idem[<<k, u>>].status = "none"
                /\ \A p \in Procs : ~(proc[p].op = "pay" /\ proc[p].key = k)}

\* every seat of the showtime, in order
WholeHouse == [i \in 1..NumSeats |-> i]

\* a client asks for seats s with a key not used before
NewKeyHold(p, s) ==
  UnusedHoldKeys # {} /\ HoldCacheGet(p, Min(UnusedHoldKeys), 1, s)

\* a client asks for the whole house with a key not used before
NewHold(p) ==
  UnusedHoldKeys # {} /\ HoldCacheGet(p, Min(UnusedHoldKeys), 1, WholeHouse)

\* a client asks to pay booking b with a key not used before
NewPayment(p, b) ==
  UnusedPayKeys # {} /\ PayCheck(p, Min(UnusedPayKeys), 1, b)

\* the whole lifecycle of bookings for the whole house, every client using a
\* new key for each new request
Next ==
  \/ \E p \in Procs : Return(p)
  \/ \E p \in Procs : NewHold(p)
  \/ \E p \in Procs : HoldFind(p)
  \/ \E p \in Procs : HoldReserve(p)
  \/ \E p \in Procs : HoldCreate(p)
  \/ \E p \in Procs : HoldCacheSet(p)
  \/ \E p \in Procs, b \in BookingIds : CancelFind(p, b, 1)
  \/ \E p \in Procs : CancelRelease(p)
  \/ \E p \in Procs : CancelSave(p)
  \/ \E p \in Procs, b \in BookingIds : NewPayment(p, b)
  \/ \E p \in Procs : PayIdemCreate(p)
  \/ \E p \in Procs : PayValidate(p)
  \/ \E p \in Procs : PayExisting(p)
  \/ \E p \in Procs : PayCreate(p)
  \/ \E p \in Procs : PayGateway(p)
  \/ \E p \in Procs : PayComplete(p)
  \/ \E p \in Procs : PayFail(p)
  \/ \E p \in Procs, t \in PaymentIds, st \in WebhookStatuses : WebhookFind(p, t, st)
  \/ \E p \in Procs : WebhookFail(p)
  \/ \E p \in Procs : WebhookSuccess(p)
  \/ \E p \in Procs : ConfirmFind(p)
  \/ \E p \in Procs : ConfirmSeats(p)
  \/ \E p \in Procs : ConfirmSave(p)
  \/ \E p \in Procs : ReleaseFind(p)
  \/ \E p \in Procs : ReleaseSeats(p)
  \/ \E p \in Procs : ReleaseSave(p)

Spec == Init /\ [][Next]_vars

\* ------------------------------------------------------------- the engine alone
\* the latest deadline a hold is extended to
MaxDeadline == MaxTime + HoldTicks + 1

\* The engine's callers are not modelled here; slot 1 remembers the last call.
\* SeatReservationService.reserveSeats called with any booking id and seat list
EngineReserve(b, args) ==
  /\ LET r == reserveSeats(seatMap, available, now, args, b)
     IN  /\ r.available >= 0 - MaxDrift
         /\ seatMap' = r.seats /\ available' = r.available
  /\ proc' = [proc EXCEPT ![1] = [IdleProc EXCEPT !.op = "reserve", !.bid = b, !.seats = args]]
  /\ UNCHANGED <<locks, now, holdCache, bookings, minted, payments, idem, faults, hist>>

\* SeatReservationService.releaseSeats
EngineRelease(b, args) ==
  /\ LET r == releaseSeatsScript(seatMap, available, now, b, args)
     IN  seatMap' = r.seats /\ available' = r.available
  /\ proc' = [proc EXCEPT ![1] = [IdleProc EXCEPT !.op = "release", !.bid = b, !.seats = args]]
  /\ UNCHANGED <<locks, now, holdCache, bookings, minted, payments, idem, faults, hist>>

\* SeatReservationService.confirmSeats
EngineConfirm(b, args) ==
  /\ LET r == confirmSeatsScript(seatMap, available, now, b, args)
     IN  seatMap' = r.seats /\ available' = r.available
  /\ proc' = [proc EXCEPT ![1] = [IdleProc EXCEPT !.op = "confirm", !.bid = b, !.seats = args]]
  /\ UNCHANGED <<locks, now, holdCache, bookings, minted, payments, idem, faults, hist>>

\* SeatReservationService.cleanupExpiredHolds
EngineCleanup ==
  /\ LET r == cleanupExpiredHoldsScript(seatMap, available, now)
     IN  seatMap' = r.seats /\ available' = r.available
  /\ proc' = [proc EXCEPT ![1] = [IdleProc EXCEPT !.op = "cleanup", !.bid = 0, !.seats = <<>>]]
  /\ UNCHANGED <<locks, now, holdCache, bookings, minted, payments, idem, faults, hist>>

\* SeatReservationService.getSeatsStatus, for some seats or (no ids) for all
EngineStatus(args) ==
  /\ LET r == getSeatsStatusScript(seatMap, available, now, args)
     IN  seatMap' = r.seats /\ available' = r.available
  /\ proc' = [proc EXCEPT ![1] = [IdleProc EXCEPT !.op = "status", !.bid = 0, !.seats = args]]
  /\ UNCHANGED <<locks, now, holdCache, bookings, minted, payments, idem, faults, hist>>

\* SeatReservationService.extendHold
EngineExtend(b, additional, args) ==
  /\ LET r == extendHoldScript(seatMap, available, now, b, additional, args)
     IN  /\ \A x \in DOMAIN r.seats : r.seats[x].held_until <= MaxDeadline
         /\ seatMap' = r.seats /\ available' = r.available
  /\ proc' = [proc EXCEPT ![1] = [IdleProc EXCEPT !.op = "extend", !.bid = b, !.seats = args]]
  /\ UNCHANGED <<locks, now, holdCache, bookings, minted, payments, idem, faults, hist>>

\* the store's clock moves on: what slot 1 remembers is the last call made at
\* the present time
EngineTick ==
  /\ now < MaxTime
  /\ now' = now + 1
  /\ proc' = [proc EXCEPT ![1] = IdleProc]
  /\ UNCHANGED <<locks, seatMap, available, holdCache, bookings, minted, payments, idem,
                 faults, hist>>

NextEngine ==
  \/ EngineTick
  \/ \E b \in BookingIds, args \in SeatLists : EngineReserve(b, args)
  \/ \E b \in BookingIds, args \in SeatLists : EngineRelease(b, args)
  \/ \E b \in BookingIds, args \in SeatLists : EngineConfirm(b, args)
  \/ EngineCleanup
  \/ \E args \in SeatLists \cup {<<>>} : EngineStatus(args)
  \/ \E b \in BookingIds, args \in SeatLists : EngineExtend(b, 1, args)

SpecEngine == Init /\ [][NextEngine]_vars

\* ------------------------------------------------------------- flash sale
\* a showtime with a single seat
InitFlash ==
  /\ now = 0
  /\ locks = NoLocks
  /\ seatMap = [s \in {1} |-> AvailableSeat]
  /\ available = 1
  /\ holdCache = [k \in Keys |-> NoResp]
  /\ bookings = [b \in BookingIds |-> NoBooking]
  /\ minted = 0
  /\ payments = [q \in PaymentIds |-> NoPayment]
  /\ idem = [kk \in Keys \X Users |-> NoIdem]
  /\ proc = [p \in Procs |-> IdleProc]
  /\ faults = 0
  /\ hist = NoHist

\* the client has its answer and sends nothing more
Settle(p) ==
  /\ proc[p].pc = "done"
  /\ proc' = [proc EXCEPT ![p].pc = "settled"]
  /\ UNCHANGED <<locks, now, seatMap, available, holdCache, bookings, minted, payments,
                 idem, faults, hist>>

\* every client sends one hold request for the seat, each with its own key
NextFlash ==
  \/ \E p \in Procs, u \in Users : HoldCacheGet(p, p, u, <<1>>)
  \/ \E p \in Procs : HoldFind(p)
  \/ \E p \in Procs : HoldReserve(p)
  \/ \E p \in Procs : HoldCreate(p)
  \/ \E p \in Procs : HoldCacheSet(p)
  \/ \E p \in Procs : Settle(p)

SpecFlash == InitFlash /\ [][NextFlash]_vars

\* ------------------------------------------------------------- bookings
\* the stores may fail
InitFaulty ==
  /\ now = 0
  /\ locks = NoLocks
  /\ seatMap = [s \in Seats |-> AvailableSeat]
  /\ available = NumSeats
  /\ holdCache = [k \in Keys |-> NoResp]
  /\ bookings = [b \in BookingIds |-> NoBooking]
  /\ minted = 0
  /\ payments = [q \in PaymentIds |-> NoPayment]
  /\ idem = [kk \in Keys \X Users |-> NoIdem]
  /\ proc = [p \in Procs |-> IdleProc]
  /\ faults = MaxFaults
  /\ hist = NoHist

\* the seat lists the booking clients send: seats in order, none twice, and a
\* seat the showtime does not have
ClientSeatLists ==
  {s \in SeatLists : \A i, j \in DOMAIN s : i < j => s[i] < s[j] /\ s[j] \in Seats}

\* hold, cancel and the reaper, one user's requests with any key and seat list,
\* as time passes
NextBooking ==
  \/ Tick
  \/ \E p \in Procs : Return(p)
  \/ \E p \in Procs, k \in Keys, s \in ClientSeatLists : HoldCacheGet(p, k, 1, s)
  \/ \E p \in Procs : HoldFind(p)
  \/ \E p \in Procs : HoldReserve(p)
  \/ \E p \in Procs : HoldCreate(p)
  \/ \E p \in Procs : HoldCacheSet(p)
  \/ \E p \in Procs : HoldRollback(p)
  \/ \E p \in Procs, b \in BookingIds : CancelFind(p, b, 1)
  \/ \E p \in Procs : CancelRelease(p)
  \/ \E p \in Procs : CancelSave(p)
  \/ \E p \in Procs : ReaperFind(p)
  \/ \E p \in Procs : ReaperRelease(p)
  \/ \E p \in Procs : ReaperSave(p)

SpecBooking == InitFaulty /\ [][NextBooking]_vars

\* ------------------------------------------------------------- payments
\* the state after users 1 and 2 have each held one seat at time 0: user u
\* holds seat u as booking u, requested with key u
InitHeld ==
  /\ now = 0
  /\ locks = NoLocks
  /\ seatMap = [s \in Seats |-> IF s <= 2 THEN HeldSeat(s, HoldTicks) ELSE AvailableSeat]
  /\ available = NumSeats - 2
  /\ bookings = [b \in BookingIds |->
                   IF b <= 2
                     THEN [status |-> "pending", user_id |-> b, seats |-> <<b>>,
                           hold_expires_at |-> HoldTicks, idempotency_key |-> b,
                           cancellation_reason |-> ""]
                   ELSE NoBooking]
  /\ holdCache = [k \in Keys |->
                    IF k <= 2 THEN [NoResp EXCEPT !.status = 201, !.code = "HOLD",
                                                  !.bid = k, !.bstatus = "pending"]
                    ELSE NoResp]
  /\ minted = 2
  /\ payments = [q \in PaymentIds |-> NoPayment]
  /\ idem = [kk \in Keys \X Users |-> NoIdem]
  /\ proc = [p \in Procs |-> IdleProc]
  /\ faults = 0
  /\ hist = NoHist

\* create-payment requests with any key, user and booking, and the gateway's
\* webhooks, all within the hold
NextPay ==
  \/ \E p \in Procs : Return(p)
  \/ \E p \in Procs, k \in Keys, u \in Users, b \in BookingIds : PayCheck(p, k, u, b)
  \/ \E p \in Procs : PayRecheck(p)
  \/ \E p \in Procs : PayIdemCreate(p)
  \/ \E p \in Procs : PayValidate(p)
  \/ \E p \in Procs : PayExisting(p)
  \/ \E p \in Procs : PayCreate(p)
  \/ \E p \in Procs : PayReadByKey(p)
  \/ \E p \in Procs : PayGateway(p)
  \/ \E p \in Procs : PayComplete(p)
  \/ \E p \in Procs : PayFail(p)
  \/ \E p \in Procs, t \in PaymentIds, st \in WebhookStatuses : WebhookFind(p, t, st)
  \/ \E p \in Procs : WebhookFail(p)
  \/ \E p \in Procs : WebhookSuccess(p)
  \/ \E p \in Procs : ConfirmFind(p)
  \/ \E p \in Procs : ConfirmSeats(p)
  \/ \E p \in Procs : ConfirmSave(p)
  \/ \E p \in Procs : ReleaseFind(p)
  \/ \E p \in Procs : ReleaseSeats(p)
  \/ \E p \in Procs : ReleaseSave(p)

SpecPay == InitHeld /\ [][NextPay]_vars

\* ------------------------------------------------------------- script calls
\* SeatReservationService.reserveSeats is called with any booking id and seat
\* list and hands the script to executeScript
ScriptCall(p, b, args) ==
  /\ Idle(p)
  /\ proc' = [proc EXCEPT ![p] = [IdleProc EXCEPT !.op = "script", !.pc = "es_evalsha",
                                                 !.bid = b, !.seats = args]]
  /\ UNCHANGED <<locks, now, seatMap, available, holdCache, bookings, minted, payments,
                 idem, faults, hist>>

\* a faulty executeScript that falls back to EVAL after any error
ScriptEvalshaRetryingAll(p) ==
  /\ At(p, "script", "es_evalsha")
  /\ \E o \in {"reply", "noscript", "refused", "lost"} :
       LET ran == o \in {"reply", "lost"}
           r == reserveSeats(seatMap, available, now, proc[p].seats, proc[p].bid)
           pr == [proc[p] EXCEPT !.runs = @ + (IF ran THEN 1 ELSE 0)]
       IN  /\ seatMap' = IF ran THEN r.seats ELSE seatMap
           /\ available' = IF ran THEN r.available ELSE available
           /\ proc' = [proc EXCEPT ![p] =
                         IF o = "reply" THEN Finish(pr, Resp(0, r.message))
                         ELSE [pr EXCEPT !.pc = "es_eval", !.retry = TRUE]]
  /\ UNCHANGED <<locks, now, holdCache, bookings, minted, payments, idem, faults, hist>>

\* executeScript: redisService.evalsha.  The store answers with the script's
\* result, or with NOSCRIPT (nothing ran), or the call fails before the script
\* ran (refused) or after it ran (the answer is lost); only NOSCRIPT leads to
\* the fallback, any other error is thrown and reserveSeats turns it into
\* INTERNAL_ERROR
ScriptEvalsha(p) ==
  /\ At(p, "script", "es_evalsha")
  /\ \E o \in {"reply", "noscript", "refused", "lost"} :
       LET ran == o \in {"reply", "lost"}
           r == reserveSeats(seatMap, available, now, proc[p].seats, proc[p].bid)
           pr == [proc[p] EXCEPT !.runs = @ + (IF ran THEN 1 ELSE 0)]
       IN  /\ seatMap' = IF ran THEN r.seats ELSE seatMap
           /\ available' = IF ran THEN r.available ELSE available
           /\ proc' = [proc EXCEPT ![p] =
                         IF o = "noscript" THEN [pr EXCEPT !.pc = "es_eval", !.retry = TRUE]
                         ELSE IF o = "reply" THEN Finish(pr, Resp(0, r.message))
                         ELSE Finish(pr, Resp(0, "INTERNAL_ERROR"))]
  /\ UNCHANGED <<locks, now, holdCache, bookings, minted, payments, idem, faults, hist>>

\* executeScript, fallback: redisService.eval with the script text, then
\* scriptLoad; an error of either is thrown
ScriptEval(p) ==
  /\ At(p, "script", "es_eval")
  /\ \E o \in {"reply", "refused", "lost", "reload_failed"} :
       LET ran == o # "refused"
           r == reserveSeats(seatMap, available, now, proc[p].seats, proc[p].bid)
           pr == [proc[p] EXCEPT !.runs = @ + (IF ran THEN 1 ELSE 0)]
       IN  /\ seatMap' = IF ran THEN r.seats ELSE seatMap
           /\ available' = IF ran THEN r.available ELSE available
           /\ proc' = [proc EXCEPT ![p] =
                         IF o = "reply" THEN Finish(pr, Resp(0, r.message))
                         ELSE Finish(pr, Resp(0, "INTERNAL_ERROR"))]
  /\ UNCHANGED <<locks, now, holdCache, bookings, minted, payments, idem, faults, hist>>

\* reservations through executeScript, with a store that may lose its script
\* cache or the connection at any call
NextScript ==
  \/ \E p \in Procs : Return(p)
  \/ \E p \in Procs, b \in BookingIds, args \in SeatLists : ScriptCall(p, b, args)
  \/ \E p \in Procs : ScriptEvalsha(p)
  \/ \E p \in Procs : ScriptEval(p)

SpecScript == Init /\ [][NextScript]_vars

\* ------------------------------------------------------------- confirmation
\* one client holds any seat list and pays for it while the gateway's success
\* webhooks are handled by a second worker
NextConfirm ==
  \/ \E p \in Procs : Return(p)
  \/ \E s \in SeatLists : NewKeyHold(1, s)
  \/ HoldFind(1) \/ HoldReserve(1) \/ HoldCreate(1) \/ HoldCacheSet(1)
  \/ \E b \in BookingIds : NewPayment(1, b)
  \/ PayIdemCreate(1) \/ PayValidate(1) \/ PayExisting(1) \/ PayCreate(1)
  \/ PayGateway(1) \/ PayComplete(1) \/ PayFail(1)
  \/ \E t \in PaymentIds : WebhookFind(2, t, "success")
  \/ WebhookSuccess(2)
  \/ ConfirmFind(2) \/ ConfirmSeats(2) \/ ConfirmSave(2)

SpecConfirm == Init /\ [][NextConfirm]_vars

\* ------------------------------------------------------------- shared keys
\* hold-seats requests by any user with any key
NextShared ==
  \/ \E p \in Procs : Return(p)
  \/ \E p \in Procs, k \in Keys, u \in Users, s \in ClientSeatLists : HoldCacheGet(p, k, u, s)
  \/ \E p \in Procs : HoldFind(p)
  \/ \E p \in Procs : HoldReserve(p)
  \/ \E p \in Procs : HoldCreate(p)
  \/ \E p \in Procs : HoldCacheSet(p)
  \/ \E p \in Procs : HoldRollback(p)

SpecShared == Init /\ [][NextShared]_vars

\* ------------------------------------------------------------- locks
\* a key set with PX exists until its time to live has passed
LockLive(store, t, key) == store[key].value # 0 /\ store[key].expires > t

\* LUA_SCRIPTS.ACQUIRE_LOCK: SET key value NX PX ttl
ACQUIRE_LOCK(store, t, key, value, ttl) ==
  IF LockLive(store, t, key) THEN [store |-> store, result |-> 0]
  ELSE [store |-> [store EXCEPT ![key] = [value |-> value, expires |-> t + ttl]],
        result |-> 1]

\* a release that deletes the key whoever owns it
releaseWithoutOwnerCheck(store, t, key, value) ==
  IF LockLive(store, t, key)
    THEN [store |-> [store EXCEPT ![key] = NoLock], result |-> 1]
  ELSE [store |-> store, result |-> 0]

\* LUA_SCRIPTS.RELEASE_LOCK: DEL key when GET key is the caller's value
RELEASE_LOCK(store, t, key, value) ==
  IF LockLive(store, t, key) /\ store[key].value = value
    THEN [store |-> [store EXCEPT ![key] = NoLock], result |-> 1]
  ELSE [store |-> store, result |-> 0]

\* LUA_SCRIPTS.EXTEND_LOCK: PEXPIRE key ttl when GET key is the caller's value
EXTEND_LOCK(store, t, key, value, ttl) ==
  IF LockLive(store, t, key) /\ store[key].value = value
    THEN [store |-> [store EXCEPT ![key].expires = t + ttl], result |-> 1]
  ELSE [store |-> store, result |-> 0]

\* A call to the store comes to a reply, to an error before the script ran
\* (refused) or to an error after it ran (lost).
\* acquireLock is called: generateLockValue makes a value nobody else has
AcquireLock(c, key, ttl) ==
  /\ locks.caller[c].pc = "idle" /\ ~locks.caller[c].has
  /\ locks.issued < MaxLockValues
  /\ locks' = [locks EXCEPT !.issued = @ + 1,
                            !.caller[c] = [NoCaller EXCEPT !.pc = "acquire",
                                             !.resource = key, !.ttl = ttl,
                                             !.value = locks.issued + 1]]
  /\ UNCHANGED <<now, seatMap, available, holdCache, bookings, minted, payments,
                 idem, proc, faults, hist>>

\* acquireLock, one turn of the loop: eval of ACQUIRE_LOCK; 'OK' returns the
\* Lock, anything else or an error sleeps and tries again while attempts remain
AcquireAttempt(c) ==
  /\ locks.caller[c].pc = "acquire"
  /\ \E outcome \in {"reply", "refused", "lost"} :
       LET me == locks.caller[c]
           ran == outcome # "refused"
           r == IF ran THEN ACQUIRE_LOCK(locks.store, now, me.resource, me.value, me.ttl)
                ELSE [store |-> locks.store, result |-> 0]
           ok == outcome = "reply" /\ r.result = 1
       IN  locks' = [locks EXCEPT
                       !.store = r.store,
                       !.last = IF ran THEN [op |-> "acquire", resource |-> me.resource,
                                           value |-> me.value, result |-> r.result,
                                           turn |-> 1 - @.turn]
                                ELSE @,
                       !.caller[c] =
                         IF ok THEN [me EXCEPT !.pc = "idle", !.has = TRUE,
                                               !.until = now + me.ttl]
                         ELSE IF me.attempt < MaxRetry
                           THEN [me EXCEPT !.attempt = @ + 1]
                         ELSE NoCaller]
  /\ UNCHANGED <<now, seatMap, available, holdCache, bookings, minted, payments,
                 idem, proc, faults, hist>>

\* releaseLock with the caller's Lock object, whatever has become of the key
ReleaseLock(c) ==
  /\ locks.caller[c].pc = "idle" /\ locks.caller[c].has
  /\ \E outcome \in {"reply", "refused", "lost"} :
       LET me == locks.caller[c]
           ran == outcome # "refused"
           r == IF ran THEN RELEASE_LOCK(locks.store, now, me.resource, me.value)
                ELSE [store |-> locks.store, result |-> 0]
       IN  locks' = [locks EXCEPT
                       !.store = r.store,
                       !.last = IF ran THEN [op |-> "release", resource |-> me.resource,
                                           value |-> me.value, result |-> r.result,
                                           turn |-> 1 - @.turn]
                                ELSE @,
                       !.caller[c] = NoCaller]
  /\ UNCHANGED <<now, seatMap, available, holdCache, bookings, minted, payments,
                 idem, proc, faults, hist>>

\* extendLock with the caller's Lock object; until follows the key's new time
\* to live whether or not the reply arrives
ExtendLock(c, ttl) ==
  /\ locks.caller[c].pc = "idle" /\ locks.caller[c].has
  /\ \E outcome \in {"reply", "refused", "lost"} :
       LET me == locks.caller[c]
           ran == outcome # "refused"
           r == IF ran THEN EXTEND_LOCK(locks.store, now, me.resource, me.value, ttl)
                ELSE [store |-> locks.store, result |-> 0]
       IN  locks' = [locks EXCEPT
                       !.store = r.store,
                       !.last = IF ran THEN [op |-> "extend", resource |-> me.resource,
                                           value |-> me.value, result |-> r.result,
                                           turn |-> 1 - @.turn]
                                ELSE @,
                       !.caller[c] = IF r.result = 1
                                       THEN [me EXCEPT !.until = now + ttl]
                                     ELSE me]
  /\ UNCHANGED <<now, seatMap, available, holdCache, bookings, minted, payments,
                 idem, proc, faults, hist>>

\* callers of the lock service taking, extending and giving back locks while
\* the clock runs
NextLock ==
  \/ Tick
  \/ \E c \in Procs, key \in 1..NumResources, ttl \in 1..LockTicks : AcquireLock(c, key, ttl)
  \/ \E c \in Procs : AcquireAttempt(c)
  \/ \E c \in Procs : ReleaseLock(c)
  \/ \E c \in Procs, ttl \in 1..LockTicks : ExtendLock(c, ttl)

SpecLock == Init /\ [][NextLock]_vars

\* ------------------------------------------------------------- settlement
\* the payment of booking 1 and its webhooks, cancel-booking called by any user
\* for any booking, and the reaper, as time passes and the holds run out
NextSettle ==
  \/ Tick
  \/ \E p \in Procs : Return(p)
  \/ \E p \in Procs : NewPayment(p, 1)
  \/ \E p \in Procs : PayIdemCreate(p)
  \/ \E p \in Procs : PayValidate(p)
  \/ \E p \in Procs : PayExisting(p)
  \/ \E p \in Procs : PayCreate(p)
  \/ \E p \in Procs : PayGateway(p)
  \/ \E p \in Procs : PayComplete(p)
  \/ \E p \in Procs : PayFail(p)
  \/ \E p \in Procs, t \in PaymentIds, st \in WebhookStatuses : WebhookFind(p, t, st)
  \/ \E p \in Procs : WebhookFail(p)
  \/ \E p \in Procs : WebhookSuccess(p)
  \/ \E p \in Procs : ConfirmFind(p)
  \/ \E p \in Procs : ConfirmSeats(p)
  \/ \E p \in Procs : ConfirmSave(p)
  \/ \E p \in Procs : ReleaseFind(p)
  \/ \E p \in Procs : ReleaseSeats(p)
  \/ \E p \in Procs : ReleaseSave(p)
  \/ \E p \in Procs, b \in BookingIds, u \in Users : CancelFind(p, b, u)
  \/ \E p \in Procs : CancelRelease(p)
  \/ \E p \in Procs : CancelSave(p)
  \/ \E p \in Procs : ReaperFind(p)
  \/ \E p \in Procs : ReaperRelease(p)
  \/ \E p \in Procs : ReaperSave(p)

SpecSettle == InitHeld /\ [][NextSettle]_vars

\* ------------------------------------------------------------- hold and cancel
\* the response cached for key k reaches the end of its hour (set ... PX)
HoldCacheExpire(k) ==
  /\ NoneDone
  /\ holdCache[k] # NoResp
  /\ holdCache' = [holdCache EXCEPT ![k] = NoResp]
  /\ UNCHANGED <<locks, now, seatMap, available, bookings, minted, payments, idem, proc,
                 faults, hist>>

\* hold-seats with any key and any seat list the request validation accepts
\* (repeats included), cancel-booking, and the response cache losing entries;
\* no store fails and every hold outlives the run
NextHold ==
  \/ \E p \in Procs : Return(p)
  \/ \E p \in Procs, k \in Keys, s \in SeatLists : HoldCacheGet(p, k, 1, s)
  \/ \E p \in Procs : HoldFind(p)
  \/ \E p \in Procs : HoldReserve(p)
  \/ \E p \in Procs : HoldCreate(p)
  \/ \E p \in Procs : HoldCacheSet(p)
  \/ \E p \in Procs : HoldRollback(p)
  \/ \E p \in Procs, b \in BookingIds : CancelFind(p, b, 1)
  \/ \E p \in Procs : CancelRelease(p)
  \/ \E p \in Procs : CancelSave(p)
  \/ \E k \in Keys : HoldCacheExpire(k)

SpecHold == Init /\ [][NextHold]_vars

\* ------------------------------------------------------------- expiry
\* a step of the handler or cron run in slot p
HandlerStep(p) ==
  \/ Return(p)
  \/ HoldFind(p) \/ HoldReserve(p) \/ HoldCreate(p) \/ HoldCacheSet(p) \/ HoldRollback(p)
  \/ CancelRelease(p) \/ CancelSave(p)
  \/ ReaperRelease(p) \/ ReaperSave(p)

\* the clock moves on between requests: a handler takes far less than the
\* minutes a hold lasts
QuietTick == (\A p \in Procs : proc[p].op = "idle") /\ Tick

\* whole-house holds with new keys, cancel-booking and the reaper as time passes
NextExpiry ==
  \/ QuietTick
  \/ \E p \in Procs : NewHold(p)
  \/ \E p \in Procs, b \in BookingIds : CancelFind(p, b, 1)
  \/ \E p \in Procs : ReaperFind(p)
  \/ \E p \in Procs : HandlerStep(p)

\* time passes, every handler runs to its end, and the cron job fires again and
\* again (@Cron EVERY_MINUTE), whatever requests keep arriving
SpecExpiry ==
  /\ InitFaulty /\ [][NextExpiry]_vars
  /\ SF_vars(QuietTick)
  /\ \A p \in Procs : SF_vars(HandlerStep(p))
  /\ SF_vars(\E p \in Procs : ReaperFind(p))

\* ------------------------------------------------------------- round trips
\* one client, one request at a time: a hold with a new key and any seat list
\* the request validation accepts ...
RoundHold(s) ==
  /\ \A b \in BookingIds : bookings[b].status # "pending"
  /\ NewKeyHold(1, s)

\* ... and, as soon as a hold has succeeded, the cancellation of its booking
RoundCancel(b) == bookings[b].status = "pending" /\ CancelFind(1, b, 1)

NextRound ==
  \/ Return(1)
  \/ \E s \in SeatLists : RoundHold(s)
  \/ HoldFind(1) \/ HoldReserve(1) \/ HoldCreate(1) \/ HoldCacheSet(1)
  \/ \E b \in BookingIds : RoundCancel(b)
  \/ CancelRelease(1) \/ CancelSave(1)

SpecRound == Init /\ [][NextRound]_vars

\* ------------------------------------------------------------- body hashes
Scalars == {JNum(n) : n \in 1..NumVals}

\* the orders in which a client may write the properties of an object
Orders == {o \in [1..NumFields -> 1..NumFields] : \A i, j \in 1..NumFields : o[i] = o[j] => i = j}

\* the object whose property n has value w[n], written in order o
Written(o, w) == JObj(o, [i \in 1..NumFields |-> w[o[i]]])

\* scalars, arrays of scalars and objects of scalars
Flat ==
  Scalars \cup {JArr(a) : a \in [1..NumVals -> Scalars]}
          \cup {Written(o, w) : o \in Orders, w \in [1..NumFields -> Scalars]}

\* request bodies: objects whose first property may itself be an array or an
\* object
Bodies ==
  {Written(o, w) : o \in Orders,
                   w \in {x \in [1..NumFields -> Flat] :
                            \A n \in 2..NumFields : x[n] \in Scalars}}

\* a request with any body arrives under key k of user u:
\* checkIdempotencyKey with the hash of its body
CheckKey(p, k, u, body) ==
  /\ Idle(p)
  /\ LET kk == <<k, u>>
         requestHash == hashRequestBody(body)
         c == checkIdempotencyKey(idem[kk], requestHash)
         pr == [IdleProc EXCEPT !.op = "check", !.key = k, !.user = u, !.body = body]
     IN  /\ idem' = IF c = "create"
                      THEN [idem EXCEPT ![kk] = [NoIdem EXCEPT !.status = "processing",
                                                               !.request_hash = requestHash]]
                    ELSE idem
         /\ hist' = IF c = "create" THEN [hist EXCEPT !.sent[kk] = body] ELSE hist
         /\ proc' = [proc EXCEPT ![p] =
                       Finish(pr, Resp(IF c = "KEY_REUSED_DIFFERENT_BODY" THEN 400
                                       ELSE IF c = "REQUEST_IN_FLIGHT" THEN 409 ELSE 0, c))]
  /\ UNCHANGED <<locks, now, seatMap, available, holdCache, bookings, minted, payments, faults>>

\* IdempotencyService.deleteIdempotencyKey
DeleteKey(k, u) ==
  /\ NoneDone
  /\ idem[<<k, u>>].status # "none"
  /\ idem' = [idem EXCEPT ![<<k, u>>] = NoIdem]
  /\ hist' = [hist EXCEPT !.sent[<<k, u>>] = JNull]
  /\ UNCHANGED <<locks, now, seatMap, available, holdCache, bookings, minted, payments,
                 proc, faults>>

\* a handler reports success under key k of user u with the payment q it made:
\* IdempotencyService.completeIdempotencyKey, which returns nothing
CompleteKey(p, k, u, q) ==
  /\ Idle(p)
  /\ LET body == [NoResp EXCEPT !.code = "PAYMENT", !.pid = q]
     IN  /\ idem' = [idem EXCEPT ![<<k, u>>] = completeIdempotencyKey(@, 201, body)]
         /\ proc' = [proc EXCEPT ![p] =
                       Finish([IdleProc EXCEPT !.op = "complete", !.key = k,
                                               !.user = u, !.pid = q], NoResp)]
  /\ UNCHANGED <<locks, now, seatMap, available, holdCache, bookings, minted, payments,
                 faults, hist>>

\* a handler reports the error it is about to throw:
\* IdempotencyService.failIdempotencyKey with the status code createPayment
\* derives from it
FailKey(p, k, u, thrown) ==
  /\ Idle(p)
  /\ idem' = [idem EXCEPT ![<<k, u>>] =
                 failIdempotencyKey(@, "Booking has expired", DerivedStatus(thrown))]
  /\ proc' = [proc EXCEPT ![p] =
                Finish([IdleProc EXCEPT !.op = "fail", !.key = k, !.user = u],
                       Resp(thrown, "Booking has expired"))]
  /\ UNCHANGED <<locks, now, seatMap, available, holdCache, bookings, minted, payments,
                 faults, hist>>

\* one user's requests under one key, with any bodies, and the completions and
\* failures their handlers report in any order
NextHash ==
  \/ \E p \in Procs : Return(p)
  \/ \E p \in Procs, body \in Bodies : CheckKey(p, 1, 1, body)
  \/ \E p \in Procs, q \in PaymentIds : CompleteKey(p, 1, 1, q)
  \/ \E p \in Procs, thrown \in {400, 0} : FailKey(p, 1, 1, thrown)
  \/ DeleteKey(1, 1)

SpecHash == Init /\ [][NextHash]_vars

\* ------------------------------------------------------------- properties
\* no handler and no cron run is in flight
Quiescent == \A p \in Procs : proc[p].op = "idle"

\* bookings b and c list a common seat
ShareSeat(b, c) == Range(bookings[b].seats) \cap Range(bookings[c].seats) # {}

\* C1: whenever no handler is in flight, no two distinct bookings that are both
\* pending or confirmed list the same seat, and the number of booked seats does
\* not exceed the number of seats of the showtime.
C1_NoOverbooking ==
  Quiescent =>
    /\ \A b, c \in BookingIds :
         /\ b # c
         /\ bookings[b].status \in {"pending", "confirmed"}
         /\ bookings[c].status \in {"pending", "confirmed"}
         => ~ShareSeat(b, c)
    /\ CountStatus(seatMap, "booked") <= Cardinality(DOMAIN seatMap)

\* C2: no seat is sold twice: there are never two distinct confirmed bookings
\* that contain the same seat.
C2_NoSeatSoldTwice ==
  \A b, c \in BookingIds :
    b # c /\ bookings[b].status = "confirmed" /\ bookings[c].status = "confirmed"
      => ~ShareSeat(b, c)

\* C3: after every engine script, for every argument list and booking id, the
\* counter equals the number of seats of the map whose status is available.
C3_CounterMatchesAvailable == available = CountStatus(seatMap, "available")

\* the hold requests of the flash sale that have been answered
Answered == {p \in Procs : proc[p].pc = "settled"}

Won == {p \in Procs : /\ proc[p].pc \in {"done", "settled"}
                      /\ proc[p].resp.status = 201
                      /\ proc[p].resp.bstatus = "pending"}

BookingsMade == {b \in BookingIds : bookings[b].status # "none"}

CompletedFor(b) ==
  {q \in PaymentIds : payments[q].booking_id = b /\ payments[q].status = "completed"}

\* C5: at-most-once charging: for every booking at most one payment has status
\* completed.
C5_AtMostOneCompleted == \A b \in BookingIds : Cardinality(CompletedFor(b)) <= 1

WebhookInFlight == \E p \in Procs : proc[p].op = "webhook"

\* C6: whenever no webhook handler is mid-execution, every completed payment
\* belongs to a confirmed booking.
C6_CompletedImpliesConfirmed ==
  ~WebhookInFlight =>
    \A q \in PaymentIds :
      payments[q].status = "completed" => bookings[payments[q].booking_id].status = "confirmed"

\* what a webhook must leave alone once the payment is completed
Settled(q) == <<payments[q], bookings, seatMap, available>>

\* C7: for every transaction id the payment makes at most one transition to
\* completed and confirm-seats-after-payment is invoked at most once; a webhook
\* (success, failed or pending) delivered when the payment is completed is
\* answered with success at once, and no step of any webhook handler changes a
\* completed payment.
C7_WebhookAtMostOnce ==
  /\ [](\A q \in PaymentIds : hist.completions[q] <= 1 /\ hist.confirmCalls[q] <= 1)
  /\ [][\A p \in Procs, t \in PaymentIds :
          /\ proc[p].op = "idle" /\ proc'[p].op = "webhook" /\ proc'[p].pid = t
          /\ payments[t].status = "completed"
          => /\ proc'[p].pc = "done"
             /\ proc'[p].resp = Resp(200, "Payment already processed")
             /\ UNCHANGED Settled(t)]_vars
  /\ [][\A q \in PaymentIds :
          payments[q].status = "completed" => payments'[q] = payments[q]]_vars

C7_Redelivered ==
  \E p \in Procs :
    /\ proc[p].op = "webhook" /\ proc[p].pc = "done"
    /\ proc[p].resp = Resp(200, "Payment already processed")
    /\ hist.completions[proc[p].pid] = 1
    /\ payments[proc[p].pid].version = 1

OpenFor(b) ==
  {q \in PaymentIds : /\ payments[q].booking_id = b
                      /\ payments[q].status \in {"pending", "processing"}}

\* C8: every booking has at most one payment whose status is pending or
\* processing.
C8_AtMostOneOpenPayment == \A b \in BookingIds : Cardinality(OpenFor(b)) <= 1

C10_KeyReuseRejected ==
  \A p \in Procs :
    proc[p].op = "hold" /\ proc[p].reuse /\ proc[p].pc = "done" =>
      proc[p].resp = Resp(400, "KEY_REUSED_DIFFERENT_BODY")

\* seats the engine has held or booked under booking id b
SeatsOf(map, b) ==
  {x \in DOMAIN map : map[x].status \in {"held", "booked"} /\ map[x].booking_id = b}

\* C11: no idempotency key ever has more than one booking record, and when the
\* durable create of a hold-seats request is rejected (another request with the
\* same key has created its booking first), the compensation leaves no seat
\* under the loser's booking id and raises the counter by what the loser's
\* reservation had taken from it.
C11_OneBookingPerKey ==
  /\ [](\A k \in Keys : Cardinality(BookingsWithKey(k)) <= 1)
  /\ [][\A p \in Procs :
          proc[p].op = "hold" /\ proc[p].pc = "hs_rollback" /\ proc'[p].pc = "done"
          => /\ SeatsOf(seatMap', proc[p].bid) = {}
             /\ available' = available + proc[p].dec]_vars

\* C12: a hold-seats request that arrives after a request with the same key,
\* user and seats has succeeded is answered with the response of that first
\* request, whatever has happened to the booking and to the cached response
\* since.
C12_HoldReplayIdentical ==
  \A p \in Procs :
    proc[p].op = "hold" /\ proc[p].late /\ proc[p].pc = "done" =>
      proc[p].resp = hist.holdResp[proc[p].key]

\* C13: when the primary action of a create-payment request has failed, its
\* idempotency record is failed and carries the error message, and a later
\* request with the same key, user and body is answered with that same failure
\* (status code and error) without creating a payment.
C13_RetryReturnsSameFailure ==
  /\ \A kk \in Keys \X Users :
       hist.firstFail[kk] # NoResp =>
         /\ idem[kk].status = "failed"
         /\ idem[kk].response_body.code = hist.firstFail[kk].code
  /\ \A p \in Procs :
       proc[p].op = "pay" /\ proc[p].retry /\ proc[p].pc = "done" =>
         /\ proc[p].resp = hist.firstFail[<<proc[p].key, proc[p].user>>]
         /\ proc[p].pid = 0

\* every seat booking b lists has status st under b's id in the engine
AllSeats(b, st) ==
  \A i \in DOMAIN bookings[b].seats :
    /\ seatMap[bookings[b].seats[i]].status = st
    /\ seatMap[bookings[b].seats[i]].booking_id = b

\* C14: whenever no handler is in flight (in particular right after hold-seats
\* has returned or thrown), every pending booking has all of its seats held in
\* the engine under its own booking id.
C14_PendingHoldsSeats ==
  Quiescent => \A b \in BookingIds : bookings[b].status = "pending" => AllSeats(b, "held")

\* C15: whenever no handler is in flight, every confirmed booking has all of
\* its seats booked in the engine under its own booking id, whatever the
\* interleaving of the webhook's confirmation with cancel-booking and the
\* release after a failed payment has been.
C15_ConfirmedSeatsBooked ==
  Quiescent => \A b \in BookingIds : bookings[b].status = "confirmed" => AllSeats(b, "booked")

\* C16: whenever no handler is in flight, no seat of the engine is held or
\* booked under the id of a cancelled or expired booking, also when the
\* release-seats call of cancel-booking or of the reaper has failed.
C16_CancelledHoldsNothing ==
  Quiescent =>
    \A b \in BookingIds :
      bookings[b].status \in {"cancelled", "expired"} => SeatsOf(seatMap, b) = {}

\* seat x is held and its hold has run out
Overdue(x) == seatMap[x].status = "held" /\ seatMap[x].held_until < now

\* C17: hold liveness: a seat whose hold has run out does not stay held: the
\* reaper (or an operation touching the seat) ends the hold, whatever the state
\* of the booking the hold was made for.
C17_HoldLiveness == \A x \in Seats : Overdue(x) ~> ~Overdue(x)

\* C18: round trip: when every successful hold has been followed at once by
\* the cancellation of its booking, every seat of the showtime and the counter
\* are as they were before the hold, whatever seat list the hold carried.
C18_RoundTrip ==
  (Quiescent /\ \A b \in BookingIds : bookings[b].status # "pending") =>
    /\ seatMap = [x \in Seats |-> AvailableSeat]
    /\ available = NumSeats

\* JSON values x and y are the same up to the order in which the properties of
\* their objects, at any depth, are written; arrays are compared in order
RECURSIVE SameJson(_, _)
SameJson(x, y) ==
  /\ x.t = y.t
  /\ Len(x.items) = Len(y.items)
  /\ IF x.t = "num" THEN x.v = y.v
     ELSE IF x.t = "arr"
       THEN \A i \in DOMAIN x.items : SameJson(x.items[i].val, y.items[i].val)
     ELSE /\ {x.items[i].k : i \in DOMAIN x.items} = {y.items[j].k : j \in DOMAIN y.items}
          /\ \A i \in DOMAIN x.items, j \in DOMAIN y.items :
               x.items[i].k = y.items[j].k => SameJson(x.items[i].val, y.items[j].val)

\* C19: hashRequestBody gives two bodies the same hash exactly when they differ
\* at most in the order of object keys, at any depth (the order of array
\* elements counts): a request under a key in use is taken for a request with
\* another body exactly when its body differs in more than key order from the
\* body the key was first used with.
C19_HashIgnoresKeyOrder ==
  \A p \in Procs :
    proc[p].op = "check" /\ proc[p].pc = "done" /\ proc[p].resp.code # "create" =>
      (proc[p].resp.code = "KEY_REUSED_DIFFERENT_BODY"
         <=> ~SameJson(hist.sent[<<proc[p].key, proc[p].user>>], proc[p].body))

\* a body with the keys of the outer and of the nested object both written in
\* another order is taken for the same request
C19_Permuted ==
  \E p \in Procs :
    LET x == hist.sent[<<proc[p].key, proc[p].user>>]
        y == proc[p].body
    IN  /\ proc[p].op = "check" /\ proc[p].pc = "done"
        /\ proc[p].resp.code = "REQUEST_IN_FLIGHT"
        /\ x.items[1].k # y.items[1].k
        /\ \E i, j \in DOMAIN x.items :
             /\ x.items[i].k = y.items[j].k
             /\ x.items[i].val.t = "obj"
             /\ x.items[i].val # y.items[j].val

\* C20: when the handler of a failed webhook has cancelled the booking, the
\* booking is cancelled with reason 'Payment failed' and none of its seats is
\* held or booked under it; a further failed webhook for a payment that is
\* failed already is a no-op: no step of its handler changes the payment, any
\* booking, any seat or the counter.
C20_SecondFailedWebhookNoOp ==
  /\ [][\A p \in Procs, b \in BookingIds :
          /\ proc[p].op = "webhook" /\ proc[p].pc = "rs_save" /\ proc[p].bid = b
          /\ proc'[p].pc = "done"
          => /\ bookings'[b].status = "cancelled"
             /\ bookings'[b].cancellation_reason = "Payment failed"
             /\ SeatsOf(seatMap', b) = {}]_vars
  /\ [][\A p \in Procs, t \in PaymentIds :
          /\ proc[p].op = "webhook" /\ proc[p].late /\ proc[p].pid = t
          /\ proc'[p] # proc[p]
          => UNCHANGED Settled(t)]_vars

\* C21: when hold-seats answers with an error after batch-reserve had held the
\* seats for the booking id it minted, no seat is held under that booking id
C21_FailedHoldLeavesNoSeat ==
  \A p \in Procs :
    (proc[p].op = "hold" /\ proc[p].pc = "done" /\ proc[p].resp.code = "BOOKING_FAILED")
      => \A x \in Seats :
           ~(seatMap[x].status = "held" /\ seatMap[x].booking_id = proc[p].bid)


\* C22: release-seats, confirm-seats and extend-hold called with booking id b
\* change no seat whose record carries another booking id, and a release that
\* finds none of its seats under b leaves the counter as it was
C22_OnlyOwnSeats ==
  [][proc'[1].op \in {"release", "confirm", "extend"}
       => LET b == proc'[1].bid
              args == proc'[1].seats
          IN  /\ \A x \in Seats :
                   seatMap[x].booking_id # b => seatMap'[x] = seatMap[x]
              /\ (\A i \in DOMAIN args :
                    args[i] \in Seats => seatMap[args[i]].booking_id # b)
                   => available' = available]_vars

\* the last engine call was a release for booking id 1 naming a seat that
\* booking id 2 holds, at a time when a first hold has run out
C22_ReleaseMetOtherHold ==
  /\ proc[1].op = "release" /\ proc[1].bid = 1
  /\ \E i \in DOMAIN proc[1].seats :
       /\ proc[1].seats[i] \in Seats
       /\ seatMap[proc[1].seats[i]] = HeldSeat(2, now + HoldTicks)
  /\ now > HoldTicks

Executing(kk) ==
  {p \in Procs : /\ proc[p].op = "pay" /\ <<proc[p].key, proc[p].user>> = kk
                 /\ proc[p].pc \in {"cp_validate", "cp_existing", "cp_create",
                                    "cp_readkey", "cp_gateway", "cp_complete",
                                    "cp_fail"}}

\* C24: of the check calls that race for one (key, user) with no record, one
\* returns new; a call that lost the race finds the winner's record and, its
\* hash being the same, fails with REQUEST_IN_FLIGHT or returns the response
\* the winner stored; a rejected check leaves every record as it was
C24_OneCheckWins ==
  [][/\ \A kk \in Keys \X Users : Cardinality(Executing(kk))' <= 1
     /\ \A p \in Procs :
          (proc'[p].op = "pay" /\ proc'[p].raced)
            => LET rec == idem'[<<proc'[p].key, proc'[p].user>>]
               IN  /\ rec.status # "none"
                   /\ proc'[p].pc \in {"cp_check", "done"}
                   /\ (/\ proc'[p].pc = "done"
                       /\ rec.request_hash = hashRequestBody(PaymentDto(proc'[p].bid)))
                        => \/ /\ proc'[p].resp = Resp(409, "REQUEST_IN_FLIGHT")
                              /\ rec.status = "processing"
                           \/ /\ proc'[p].resp = [rec.response_body EXCEPT !.status = 201]
                              /\ rec.status \in {"completed", "failed"}
     /\ \A p \in Procs :
          (/\ proc[p].pc # "done" /\ proc'[p].pc = "done" /\ proc'[p].op = "pay"
           /\ proc'[p].resp.code \in {"REQUEST_IN_FLIGHT", "KEY_REUSED_DIFFERENT_BODY"})
            => idem' = idem]_vars

\* a request that lost the race has been answered REQUEST_IN_FLIGHT while the
\* winner is still at work
C24_LoserRejected ==
  \E p, q \in Procs :
    /\ proc[p].op = "pay" /\ proc[p].raced /\ proc[p].pc = "done"
    /\ proc[p].resp = Resp(409, "REQUEST_IN_FLIGHT")
    /\ q \in Executing(<<proc[p].key, proc[p].user>>)
    /\ proc[q].bid = proc[p].bid

\* C25: complete and fail move a record from processing to completed or to
\* failed and store the response; on a record that is completed or failed they
\* change nothing, and the only other changes of a status are the creation of
\* the record (to processing) and its deletion
C25_StatusOnlyAdvances ==
  [][/\ \A p \in Procs :
          (proc[p].pc # "done" /\ proc'[p].pc = "done"
             /\ proc'[p].op \in {"complete", "fail"})
            => LET kk == <<proc'[p].key, proc'[p].user>>
               IN  /\ \A other \in (Keys \X Users) \ {kk} : idem'[other] = idem[other]
                   /\ idem[kk].status # "processing" => idem'[kk] = idem[kk]
                   /\ idem[kk].status = "processing" =>
                        /\ idem'[kk].status =
                             (IF proc'[p].op = "complete" THEN "completed" ELSE "failed")
                        /\ idem'[kk].request_hash = idem[kk].request_hash
     /\ \A kk \in Keys \X Users :
          idem'[kk].status # idem[kk].status
            => \/ idem[kk].status = "processing" /\ idem'[kk].status \in {"completed", "failed"}
               \/ idem[kk].status = "none" /\ idem'[kk].status = "processing"
               \/ idem'[kk] = NoIdem
     /\ \A kk \in Keys \X Users :
          (idem[kk].status \in {"completed", "failed"} /\ idem'[kk] # NoIdem)
            => idem'[kk] = idem[kk]]_vars

\* fail has just been called on a record that an earlier complete had completed
\* with the response the record still holds
C25_FailAfterComplete ==
  \E p \in Procs :
    /\ proc[p].op = "fail" /\ proc[p].pc = "done"
    /\ idem[<<proc[p].key, proc[p].user>>].status = "completed"
    /\ idem[<<proc[p].key, proc[p].user>>].response_body.pid # 0

\* C26: confirm-seats called with booking id b turns a seat into booked only if
\* the seat is held under b with held_until > now; a seat whose hold ends at
\* this very instant, which batch-reserve gives to another booking, is not
\* confirmed
C26_ConfirmNeedsLiveHold ==
  [][(proc'[1].op = "confirm" /\ now' = now)
       => \A x \in Seats :
            (seatMap'[x].status = "booked" /\ seatMap[x].status # "booked")
              => /\ seatMap[x].status = "held"
                 /\ seatMap[x].booking_id = proc'[1].bid
                 /\ seatMap[x].held_until > now
                 /\ ReserveReason(seatMap, now, x) = "HELD"]_vars

\* C27: a payment that is completed or failed keeps its status, whatever
\* webhook or create-payment step comes later
C27_PaymentTerminal ==
  [][\A q \in PaymentIds :
       payments[q].status \in {"completed", "failed"}
         => payments'[q].status = payments[q].status]_vars

\* C28: a booked seat is changed only by the release that cancel-booking or a
\* failed payment asks for under the seat's own booking id: no other step, the
\* expiry reaper's release included, touches it
C28_BookedIsTerminal ==
  [][\A x \in Seats :
       (seatMap[x].status = "booked" /\ seatMap'[x] # seatMap[x])
         => \E p \in Procs :
              /\ proc[p].bid = seatMap[x].booking_id
              /\ \/ /\ proc[p].op = "cancel" /\ proc[p].pc = "cb_release"
                    /\ proc'[p].pc = "cb_save"
                 \/ /\ proc[p].op = "webhook" /\ proc[p].pc = "rs_release"
                    /\ proc'[p].pc \in {"rs_save", "done"}]_vars

\* C29: a booking that is confirmed, cancelled or expired keeps its status,
\* however the steps of cancel-booking, the reaper and the two payment
\* callbacks interleave
C29_BookingLeavesPendingOnce ==
  [][\A b \in BookingIds :
       bookings[b].status \in {"confirmed", "cancelled", "expired"}
         => bookings'[b].status = bookings[b].status]_vars

\* C30: cancel-booking goes ahead only for the owner of a pending booking.
\* Called by another user it fails with 403, called by the owner for a booking
\* that is confirmed, cancelled or expired it fails with 400
\* BOOKING_CANNOT_BE_CANCELLED, and then no booking, no seat and not the counter
\* is changed
C30_CancelOnlyOwnPending ==
  [][\A p \in Procs :
       (proc[p].op = "idle" /\ proc'[p].op = "cancel")
         => LET bk == bookings[proc'[p].bid]
                owner == bk.user_id = proc'[p].user
            IN  /\ (bk.status # "none" /\ ~owner)
                     => /\ proc'[p].pc = "done"
                        /\ proc'[p].resp = Resp(403, "BOOKING_NOT_OWNED")
                /\ (bk.status \in {"confirmed", "cancelled", "expired"} /\ owner)
                     => /\ proc'[p].pc = "done"
                        /\ proc'[p].resp = Resp(400, "BOOKING_CANNOT_BE_CANCELLED")
                /\ proc'[p].pc = "done"
                     => /\ bookings' = bookings /\ seatMap' = seatMap
                        /\ available' = available
                /\ proc'[p].pc # "done" => bk.status = "pending" /\ owner]_vars

\* the owner's cancel-booking for a confirmed booking whose seat is booked has
\* been refused
C30_ConfirmedNotCancelled ==
  \E p \in Procs :
    /\ proc[p].op = "cancel" /\ proc[p].pc = "done"
    /\ proc[p].resp = Resp(400, "BOOKING_CANNOT_BE_CANCELLED")
    /\ bookings[proc[p].bid].status = "confirmed"
    /\ bookings[proc[p].bid].user_id = proc[p].user
    /\ \E x \in Seats : seatMap[x] = BookedSeat(HeldSeat(proc[p].bid, 0))

\* C31: release-seats, confirm-seats and cleanup-expired-holds applied a second
\* time with the same arguments, nothing else having run and the clock not
\* having moved, leave the seat map and the counter as the first application
\* left them
C31_SecondApplicationNoOp ==
  LET b == proc[1].bid
      args == proc[1].seats
      r == CASE proc[1].op = "release" ->
                  releaseSeatsScript(seatMap, available, now, b, args)
             [] proc[1].op = "confirm" ->
                  confirmSeatsScript(seatMap, available, now, b, args)
             [] proc[1].op = "cleanup" ->
                  cleanupExpiredHoldsScript(seatMap, available, now)
             [] OTHER -> [seats |-> seatMap, available |-> available]
  IN  r.seats = seatMap /\ r.available = available

\* confirm-seats has just run for two seats and booked one of them, the other
\* being held by another booking
C31_AfterPartialConfirm ==
  /\ proc[1].op = "confirm" /\ Len(proc[1].seats) = 2
  /\ proc[1].seats[1] \in Seats
  /\ seatMap[proc[1].seats[1]].status = "booked"
  /\ seatMap[proc[1].seats[1]].booking_id = proc[1].bid
  /\ proc[1].seats[2] \in Seats
  /\ seatMap[proc[1].seats[2]].status = "held"
  /\ seatMap[proc[1].seats[2]].booking_id # proc[1].bid

\* C32: extend-hold applied a second time with the same booking id, seats and
\* additional seconds leaves every held_until as the first application left it
C32_ExtendIdempotent ==
  proc[1].op = "extend"
    => extendHoldScript(seatMap, available, now, proc[1].bid, 1, proc[1].seats).seats
         = seatMap

\* C33: extend-hold called with booking id b changes held_until only for the
\* listed seats that b holds with held_until > now, adds exactly the additional
\* seconds to each of them, and leaves every other seat and the counter
\* unchanged; an expired hold is not revived
C33_ExtendOnlyLiveHolds ==
  [][(proc'[1].op = "extend" /\ now' = now)
       => /\ available' = available
          /\ \A x \in Seats :
               IF /\ x \in Range(proc'[1].seats)
                  /\ seatMap[x].status = "held"
                  /\ seatMap[x].booking_id = proc'[1].bid
                  /\ seatMap[x].held_until > now
                 THEN seatMap'[x] = [seatMap[x] EXCEPT !.held_until = @ + 1]
               ELSE seatMap'[x] = seatMap[x]]_vars

\* C34: a store failure during an engine call reaches the caller as an error:
\* hold-seats does not answer 409 SEATS_NOT_AVAILABLE when batch-reserve failed
\* in the store, and cancel-booking and the reaper do not go on to save the
\* booking when release-seats failed in the store
C34_StoreErrorsPropagate ==
  [][\A p \in Procs :
       faults' < faults
         => /\ proc[p].pc = "hs_reserve"
                 => ~(proc'[p].pc = "done" /\ proc'[p].resp.code = "SEATS_NOT_AVAILABLE")
            /\ proc[p].pc = "cb_release" => proc'[p].pc # "cb_save"
            /\ proc[p].pc = "rp_release" => proc'[p].pc # "rp_save"]_vars

C36_AlreadyPaidRejected ==
  [][\A p \in Procs :
       (/\ proc[p].op = "pay" /\ proc[p].paid /\ proc'[p] # proc[p]
        /\ bookings[proc[p].bid].status # "none"
        /\ bookings[proc[p].bid].user_id = proc[p].user)
         => /\ PaymentsMade' = PaymentsMade
            /\ (proc[p].pc \in {"cp_complete", "cp_fail"} /\ proc'[p].pc = "done")
                 => /\ proc'[p].resp.status = 409
                    /\ proc'[p].resp.code = "Booking already paid"]_vars

\* C37: when the confirm-seats call of confirm-seats-after-payment confirms
\* some but not all seats of the booking, every seat it could confirm is booked
\* under the booking's id afterwards, the counter and the booking are unchanged
\* (a pending booking stays pending) and the handler ends without saving
C37_PartialConfirmKept ==
  [][\A p \in Procs :
       LET b == proc[p].bid
           r == confirmSeatsScript(seatMap, available, now, b, bookings[b].seats)
       IN  (/\ proc[p].op = "webhook" /\ proc[p].pc = "cs_confirm"
            /\ proc'[p] # proc[p] /\ faults' = faults
            /\ r.confirmed > 0 /\ ~r.success)
             => /\ \A i \in 1..Len(bookings[b].seats) :
                     LET s == bookings[b].seats[i]
                     IN  (s \in Seats /\ seatMap[s] = HeldSeat(b, seatMap[s].held_until)
                            /\ seatMap[s].held_until >= now)
                           => /\ seatMap'[s].status = "booked"
                              /\ seatMap'[s].booking_id = b
                /\ available' = available
                /\ bookings' = bookings
                /\ proc'[p].pc = "done"]_vars

\* a confirm-seats-after-payment has ended after a partial confirmation: the
\* booking is pending and one of its seats is booked under it
C37_PartiallyConfirmed ==
  \E p \in Procs :
    /\ proc[p].op = "webhook" /\ proc[p].pc = "done"
    /\ proc[p].bid \in BookingIds
    /\ bookings[proc[p].bid].status = "pending"
    /\ \E i \in 1..Len(bookings[proc[p].bid].seats) :
         LET s == bookings[proc[p].bid].seats[i]
         IN  seatMap[s].status = "booked" /\ seatMap[s].booking_id = proc[p].bid

\* C38: for every pending booking that nobody is cancelling, while now is
\* before the durable hold_expires_at, every seat of the booking is held in the
\* engine under the booking's id with held_until > now
C38_EngineHoldOutlastsDeadline ==
  \A b \in BookingIds :
    (/\ bookings[b].status = "pending"
     /\ now < bookings[b].hold_expires_at
     /\ \A p \in Procs : ~(proc[p].op = "cancel" /\ proc[p].bid = b))
      => \A i \in 1..Len(bookings[b].seats) :
           LET s == bookings[b].seats[i]
           IN  /\ seatMap[s].status = "held"
               /\ seatMap[s].booking_id = b
               /\ seatMap[s].held_until > now

\* C39: a hold-seats request is never answered with a booking that belongs to
\* another user, whatever idempotency key it carries
C39_ReplayScopedToUser ==
  \A p \in Procs :
    (/\ proc[p].op = "hold" /\ proc[p].pc = "done"
     /\ proc[p].resp.bid \in BookingIds
     /\ bookings[proc[p].resp.bid].status # "none")
      => bookings[proc[p].resp.bid].user_id = proc[p].user

\* the callers that hold resource key: they were given a Lock for it, have not
\* released it, and the time to live they were granted has not passed
LockHolders(key) ==
  {c \in Procs : /\ locks.caller[c].has
                 /\ locks.caller[c].resource = key
                 /\ locks.caller[c].until > now}

\* C40: locks are owner-exclusive: after every step at most one caller holds
\* each resource; a script call that acquired the lock found no unexpired lock
\* stored; and a release or extend whose value is not the value of the stored
\* unexpired lock changes no lock key
C40_OwnerExclusive ==
  [][/\ \A key \in 1..NumResources : Cardinality(LockHolders(key))' <= 1
     /\ locks'.last # locks.last =>
          LET call == locks'.last
          IN  /\ (call.op = "acquire" /\ call.result = 1)
                   => ~LockLive(locks.store, now, call.resource)
              /\ (/\ call.op \in {"release", "extend"}
                  /\ ~(/\ LockLive(locks.store, now, call.resource)
                       /\ locks.store[call.resource].value = call.value))
                   => locks'.store = locks.store
     /\ locks'.last = locks.last => locks'.store = locks.store]_vars

\* a caller whose time to live has passed has asked to release its lock after
\* another caller acquired the resource, and the other caller's key is still set
C40_StaleReleaseRefused ==
  /\ locks.last.op = "release" /\ locks.last.result = 0
  /\ \E c \in Procs :
       /\ c \in LockHolders(locks.last.resource)
       /\ locks.caller[c].value # locks.last.value
       /\ locks.caller[c].value > locks.last.value
       /\ locks.store[locks.last.resource].value = locks.caller[c].value

====
